---- MODULE Spec2Model ----
(***************************************************************************)
(* NoYa LoopMaster Pro: the render job life cycle (main.py Worker and the  *)
(* MainWindow handlers, engine.py RenderLogger), the layer list run_render *)
(* hands to the compositor, and the bracketed-timestamp (.lrc) parsers.    *)
(*                                                                         *)
(* The specifications that share the module:                               *)
(*   Spec       the GUI thread, the Worker threads and the queued signals  *)
(*   SpecLayers run_render building the list `clips` for one configuration *)
(*   SpecLrc    the .lrc parsers of engine.py and of main.py on one file   *)
(*   SpecGui    the lyric option widgets of MainWindow and the preview     *)
(*   SpecSpectrum  the bar height table of run_render and make_frame, the  *)
(*              frame function of the spectrum clip                        *)
(*   SpecLyrics the scrolling and karaoke clips of run_render and the      *)
(*              virtual index of the engine and of the preview            *)
(* Each one keeps the variables of the others at their idle values.        *)
(***************************************************************************)
EXTENDS Integers, Sequences, FiniteSets, TLC

\* ------------------------------------------------------------------ bounds
\* Largest number of lines of a .lrc file.
MaxLines == 3
\* Largest number of cues a lyrics file yields.
MaxCues == 2
\* Number of render jobs the user starts in one run of the application.
MaxJobs == 2
\* Largest number of frames of one job (duration * fps).
MaxFrames == 2
\* Largest number of frames of a spectrogram whose frames differ.
MaxSpecFrames == 3
\* Frames of the spectrograms that are constant over time.
MaxRenderFrames == 63
\* The render duration of the lyric clips, in seconds; cues start and end at
\* whole seconds up to it.
MaxTime == 4
\* Number of songs the preview starts in one run of the application.
MaxPlays == 3

VARIABLES
    \* ---- GUI thread (MainWindow)
    render_btn,     \* render_btn.isEnabled()
    cancel_btn,     \* cancel_btn.isEnabled()
    status,         \* the status bar's message
    pbar,           \* pbar.value()
    nWorkers,       \* Worker objects created so far; self.worker is the last
    queue,          \* signals queued from the worker threads to the GUI thread
    \* ---- Worker threads, one entry per Worker created
    wpc,            \* "none" | "preparing" | "rendering" | "finished" | "released"
    interrupt,      \* QThread.isInterruptionRequested()
    frames,         \* len(np.arange(0, dur, 1/fps)): the frames of the job
    barTotal,       \* RenderLogger.bars['t']['total'] (0: not set yet)
    cbNext,         \* the next update the encoder sends to the logger
    \* ---- history, read by the properties only
    emitted,        \* the values passed to progress_cb, in order
    term,           \* the terminal signals the Worker emitted, in order
    raised,         \* the message of the exception run_render raised, or <<>>
    observed,       \* a bars_callback found cancel_check() true
    obsLen,         \* Len(emitted) when that happened
    reqAt,          \* callbacks done when cancel_render requested interruption, -1: never
    cbDone,         \* bars_callback invocations so far
    outcome,        \* how the GUI classified the job's end
    \* ---- run_render building the layer list (SpecLayers)
    config,         \* the configuration start_task passes to run_render
    clips,          \* the list handed to CompositeVideoClip, bottom layer first
    subs,           \* len(subs): the cues parsed from the lyrics file
    rpc,            \* the position of run_render
    \* ---- the .lrc parsers (SpecLrc)
    lrcParser,      \* "engine": run_render; "gui": MainWindow.parse_lyrics
    lrcLines,       \* f.readlines(), each line stripped and split
    lrcDur,         \* dur, the render duration in seconds
    lrcPc,          \* "lines" | "ends" | "done"
    lrcI,           \* the index of the running loop, from 1
    parsed,         \* parsed: the (sec, content) pairs of the first loop
    lrcSubs,        \* subs / self.parsed_lyrics: the cue list
    lrcFailed,      \* the except clause printed a parse error
    \* ---- the lyric option widgets of MainWindow (SpecGui)
    lyrics_bounce_chk,      \* lyrics_bounce_chk.isChecked()
    lyrics_karaoke_chk,     \* lyrics_karaoke_chk.isChecked()
    lyrics_scroll_chk,      \* lyrics_scroll_chk.isChecked()
    lyrics_dim_chk,         \* lyrics_dim_chk.isChecked()
    lyrics_box_chk,         \* lyrics_box_chk.isChecked()
    lyrics_pos_box,         \* lyrics_pos_box.currentText()
    lyrics_path,            \* self.lyrics_path ("" when no file is chosen)
    preview,                \* the lyric fields of PreviewArea
    \* ---- the spectrum layer of run_render (SpecSpectrum)
    spectrum_cfg,   \* the spectrum options of config
    stft,           \* the mean magnitude of a bar, one value per frame; every bar has it
    bar_heights,    \* bar_heights after the sensitivity (the raw heights)
    smoothed,       \* the heights after the smoothing stage
    heights,        \* bar_heights after scaling and clipping: the table the frames use
    spc,            \* the position of run_render in the spectrum block
    spec_cache,     \* _spec_cache: frame index -> frame
    requested,      \* the frames of the clip asked for so far
    specResult,     \* what the last call of make_frame returned or raised
    \* ---- the scrolling and karaoke clips of run_render (SpecLyrics)
    lyr_mode,       \* "scrolling" | "karaoke" | "index" (the virtual index alone)
    lyr_subs,       \* subs: the cues, each with start, end and the lengths of its words
    lyr_pc,         \* "scroll_loop" | "karaoke_loop" | "built" | "raised" | "index" | "idle"
    lyr_next,       \* the cue the loop over subs takes next, from 1
    locals,         \* the locals of run_render the closures of the clips read
    lyr_clips,      \* scroll_clips / karaoke_clips
    lyr_exc,        \* the exception that ended the build or a frame, or ""
    lyr_eval,       \* the last evaluation of a clip's closures at a frame time
    scroll_t,       \* the time get_v_idx was last called with, -1: never
    v_engine,       \* what get_v_idx returned for scroll_t
    v_prev,         \* what it returned for scroll_t - 1
    preview_t,      \* current_time of the last paintEvent, -1: never
    v_preview,      \* v_idx of that paintEvent
    \* ---- the frame size and the background of run_render (SpecFrame)
    res,            \* config['res']
    aspect_ratio,   \* config['aspect_ratio'] as <<ar_w, ar_h>>
    bg_size,        \* bg.size of the background as loaded: <<bg_w, bg_h>>
    frame_raw,      \* <<w, h>> before they are made even
    frame_size,     \* <<w, h>>
    crop,           \* the rectangle bg.crop keeps
    out_size,       \* bg.size after crop and resize
    fpc,            \* "resolution" | "crop" | "resize" | "done" | "raised" | "idle"
    \* ---- the preview of MainWindow (SpecPreview)
    audio_paths,    \* controls.audio_paths: the paths of the audio list
    lyrics_paths,   \* the lyrics files, each as its time-tagged lines
    audio_queue,    \* the playlist of the preview
    session_list,   \* the audio list as start_preview copied it
    played,         \* the songs started since the last start_preview
    plays,          \* the number of songs started in all
    is_playing,
    music,          \* music_player: its source and whether it plays
    timer_on,       \* preview_timer is active
    spectrum_data,  \* the song whose analysis it holds, or "None"
    workers,        \* the songs of the SpectrumWorkers that still run
    posted,         \* the results emitted, not yet delivered to the slot
    parsed_lyrics,  \* the cues of the song's lyrics
    lookup,         \* the last cue lookup of update_playback_loop
    lyrics_text,    \* preview_area.lyrics_text
    lyrics_progress,
    live_heights,   \* the heights given to set_live_heights
    current_smooth_heights,
    live_progress

guiVars == <<render_btn, cancel_btn, status, pbar, nWorkers, queue>>
workerVars == <<wpc, interrupt, frames, barTotal, cbNext>>
histVars == <<emitted, term, raised, observed, obsLen, reqAt, cbDone, outcome>>
jobVars == <<guiVars, workerVars, histVars>>

layerVars == <<config, clips, subs, rpc>>

lrcVars == <<lrcParser, lrcLines, lrcDur, lrcPc, lrcI, parsed, lrcSubs, lrcFailed>>

chkVars == <<lyrics_bounce_chk, lyrics_karaoke_chk, lyrics_scroll_chk, lyrics_dim_chk,
             lyrics_box_chk, lyrics_pos_box, lyrics_path, preview>>

\* The variables of the specifications added to the first three.
spectrumVars == <<spectrum_cfg, stft, bar_heights, smoothed, heights, spc, spec_cache,
                  requested, specResult>>

lyricVars == <<lyr_mode, lyr_subs, lyr_pc, lyr_next, locals, lyr_clips, lyr_exc, lyr_eval,
               scroll_t, v_engine, v_prev, preview_t, v_preview>>

frameVars == <<res, aspect_ratio, bg_size, frame_raw, frame_size, crop, out_size, fpc>>

playVars == <<audio_paths, lyrics_paths, audio_queue, session_list, played, plays, is_playing,
              music, timer_on, spectrum_data, workers, posted, parsed_lyrics, lookup,
              lyrics_text, lyrics_progress, live_heights, current_smooth_heights,
              live_progress>>

sceneVars == <<frameVars, playVars>>

extVars == <<chkVars, spectrumVars, lyricVars, sceneVars>>

coreVars == <<jobVars, layerVars, lrcVars>>

vars == <<coreVars, extVars>>

Jobs == 1..MaxJobs

\* ---------------------------------------------------------------- messages
\* An error message is the sequence of its words; `in` on Python strings is
\* the infix test on them.
CancelMsg == <<"Render", "Cancelled">>
MediaMsg == <<"MoviePy", "error", "file", "not", "found">>
TextClipMsg == <<"TextClip", "Error", "(ImageMagick", "might", "be", "missing)">>
EncodeMsg == <<"ffmpeg", "encode", "error">>

PrepareFailures == {MediaMsg, TextClipMsg}

Contains(msg, pat) ==
    \E i \in 1..(Len(msg) - Len(pat) + 1) : SubSeq(msg, i, i + Len(pat) - 1) = pat

\* ------------------------------------------------------------ RenderLogger
\* Variant: a logger built without cancel_check (its default, None).
cancel_checkNone(w) == FALSE

\* cancel_check and cancel_check(): the Worker's isInterruptionRequested.
cancel_check(w) == interrupt[w]

\* int((value / total) * 100); on the totals 1..MaxFrames+1 the float result
\* is the integer quotient.
Percent(value, tot) == (value * 100) \div tot

\* Variant: the callback reports before it looks at the cancellation flag.
ProgressOfAlways(w, bar, value) ==
    IF bar = "t" /\ barTotal'[w] > 0 THEN <<Percent(value, barTotal'[w])>> ELSE <<>>

\* What one bars_callback passes to progress_cb: nothing when it raises.
ProgressOf(w, bar, value) ==
    IF cancel_check(w) THEN <<>>
    ELSE IF bar = "t" /\ barTotal'[w] > 0 THEN <<Percent(value, barTotal'[w])>>
    ELSE <<>>

\* ------------------------------------------------------------- Worker.run
Signal(w, kind, val) == [w |-> w, kind |-> kind, val |-> val]

\* Variant: an except clause that swallows the exception.
ErrorSignalsNone(w, msg) == <<>>

\* except Exception as e: self.error.emit(str(e))
ErrorSignals(w, msg) == <<Signal(w, "error", msg)>>

\* run_render returned: self.success.emit()
SuccessSignals(w) == <<Signal(w, "success", <<>>)>>

\* run_render raises msg; Worker.run's except clause emits it and run() ends.
WorkerRaise(w, msg) ==
    /\ wpc' = [wpc EXCEPT ![w] = "finished"]
    /\ raised' = [raised EXCEPT ![w] = msg]
    /\ term' = [term EXCEPT ![w] = @ \o ErrorSignals(w, msg)]
    /\ queue' = queue \o ErrorSignals(w, msg)

\* run_render up to write_videofile: media load, features, layers.
WorkerPrepare(w) ==
    /\ wpc[w] = "preparing"
    /\ wpc' = [wpc EXCEPT ![w] = "rendering"]
    /\ UNCHANGED <<guiVars, interrupt, frames, barTotal, cbNext, histVars>>
    /\ UNCHANGED <<layerVars, lrcVars, extVars>>

WorkerPrepareFail(w) ==
    /\ wpc[w] = "preparing"
    /\ \E msg \in PrepareFailures : WorkerRaise(w, msg)
    /\ UNCHANGED <<render_btn, cancel_btn, status, pbar, nWorkers>>
    /\ UNCHANGED <<interrupt, frames, barTotal, cbNext>>
    /\ UNCHANGED <<emitted, observed, obsLen, reqAt, cbDone, outcome>>
    /\ UNCHANGED <<layerVars, lrcVars, extVars>>

\* The update the encoder sends next: write_videofile writes the audio (bar
\* 'chunk'), then iterates the frames with logger.iter_bar(t=...): the total,
\* then index 0, 1, ..., frames.
NextBar(w) == IF cbNext[w] = -2 THEN "chunk" ELSE "t"
NextAttr(w) == IF cbNext[w] < 0 THEN "total" ELSE "index"
NextValue(w) == IF cbNext[w] < 0 THEN frames[w] ELSE cbNext[w]

\* One update of the logger: proglog stores the value in self.bars and calls
\* bars_callback(bar, attr, value).
BarsCallback(w) ==
    /\ wpc[w] = "rendering"
    /\ cbNext[w] <= frames[w]
    /\ barTotal' = [barTotal EXCEPT ![w] =
            IF NextBar(w) = "t" /\ NextAttr(w) = "total" THEN NextValue(w) ELSE @]
    /\ cbDone' = [cbDone EXCEPT ![w] = @ + 1]
    /\ emitted' = [emitted EXCEPT ![w] = @ \o ProgressOf(w, NextBar(w), NextValue(w))]
    /\ queue' = (IF cancel_check(w) THEN queue \o ErrorSignals(w, CancelMsg) ELSE queue)
                    \o [i \in 1..Len(ProgressOf(w, NextBar(w), NextValue(w))) |->
                            Signal(w, "progress", ProgressOf(w, NextBar(w), NextValue(w))[i])]
    /\ IF cancel_check(w)
       THEN /\ wpc' = [wpc EXCEPT ![w] = "finished"]
            /\ raised' = [raised EXCEPT ![w] = CancelMsg]
            /\ term' = [term EXCEPT ![w] = @ \o ErrorSignals(w, CancelMsg)]
            /\ observed' = [observed EXCEPT ![w] = TRUE]
            /\ obsLen' = [obsLen EXCEPT ![w] = Len(emitted[w])]
            /\ UNCHANGED cbNext
       ELSE /\ cbNext' = [cbNext EXCEPT ![w] = @ + 1]
            /\ UNCHANGED <<wpc, raised, term, observed, obsLen>>
    /\ UNCHANGED <<render_btn, cancel_btn, status, pbar, nWorkers>>
    /\ UNCHANGED <<interrupt, frames, reqAt, outcome>>
    /\ UNCHANGED <<layerVars, lrcVars, extVars>>

\* The encoder fails between two updates.
EncodeFail(w) ==
    /\ wpc[w] = "rendering"
    /\ WorkerRaise(w, EncodeMsg)
    /\ UNCHANGED <<render_btn, cancel_btn, status, pbar, nWorkers>>
    /\ UNCHANGED <<interrupt, frames, barTotal, cbNext>>
    /\ UNCHANGED <<emitted, observed, obsLen, reqAt, cbDone, outcome>>
    /\ UNCHANGED <<layerVars, lrcVars, extVars>>

\* write_videofile and run_render return; Worker.run emits success and ends.
RunRenderReturns(w) ==
    /\ wpc[w] = "rendering"
    /\ cbNext[w] > frames[w]
    /\ wpc' = [wpc EXCEPT ![w] = "finished"]
    /\ term' = [term EXCEPT ![w] = @ \o SuccessSignals(w)]
    /\ queue' = queue \o SuccessSignals(w)
    /\ UNCHANGED <<render_btn, cancel_btn, status, pbar, nWorkers>>
    /\ UNCHANGED <<interrupt, frames, barTotal, cbNext>>
    /\ UNCHANGED <<emitted, raised, observed, obsLen, reqAt, cbDone, outcome>>
    /\ UNCHANGED <<layerVars, lrcVars, extVars>>

\* QThread.isRunning(): run() has not returned.
isRunning(w) == wpc[w] \in {"preparing", "rendering"}

\* -------------------------------------------------------------- MainWindow
\* Variant: start_task leaves the render button enabled.
RenderBtnAfterStartEnabled == TRUE

\* start_task: self.render_btn.setEnabled(False)
RenderBtnAfterStart == FALSE

\* self.worker = Worker(config) drops the last reference to the Worker of the
\* previous job: once its thread has ended and its signals are delivered the
\* object is gone, and the model forgets its fields.
Released(w) ==
    /\ wpc[w] = "finished"
    /\ \A i \in 1..Len(queue) : queue[i].w # w

Keep(f, init) == [w \in Jobs |-> IF Released(w) THEN init ELSE f[w]]

\* start_task, reached by a click on the enabled render button. The early
\* returns (no media dropped, save dialog dismissed) change nothing.
StartTask ==
    /\ render_btn
    /\ nWorkers < MaxJobs
    /\ nWorkers' = nWorkers + 1
    /\ \E n \in 1..MaxFrames :
            frames' = [Keep(frames, 0) EXCEPT ![nWorkers + 1] = n]
    /\ wpc' = [Keep(wpc, "released") EXCEPT ![nWorkers + 1] = "preparing"]
    /\ interrupt' = Keep(interrupt, FALSE)
    /\ barTotal' = Keep(barTotal, 0)
    /\ cbNext' = Keep(cbNext, -2)
    /\ emitted' = Keep(emitted, <<>>)
    /\ term' = Keep(term, <<>>)
    /\ raised' = Keep(raised, <<>>)
    /\ observed' = Keep(observed, FALSE)
    /\ obsLen' = Keep(obsLen, 0)
    /\ reqAt' = Keep(reqAt, -1)
    /\ cbDone' = Keep(cbDone, 0)
    /\ outcome' = Keep(outcome, "none")
    /\ render_btn' = RenderBtnAfterStart
    /\ cancel_btn' = TRUE
    /\ status' = "Rendering started..."
    /\ UNCHANGED <<pbar, queue>>
    /\ UNCHANGED <<layerVars, lrcVars, extVars>>

\* cancel_render, reached by a click on the enabled cancel button.
CancelRender ==
    /\ cancel_btn
    /\ nWorkers > 0 /\ isRunning(nWorkers)
    /\ interrupt' = [interrupt EXCEPT ![nWorkers] = TRUE]
    /\ reqAt' = [reqAt EXCEPT ![nWorkers] = IF @ = -1 THEN cbDone[nWorkers] ELSE @]
    /\ cancel_btn' = FALSE
    /\ status' = "Cancelling render..."
    /\ UNCHANGED <<render_btn, pbar, nWorkers, queue, wpc, frames, barTotal, cbNext>>
    /\ UNCHANGED <<emitted, term, raised, observed, obsLen, cbDone, outcome>>
    /\ UNCHANGED <<layerVars, lrcVars, extVars>>

\* handle_error: "Render Cancelled" in err_msg
IsCancelMsg(msg) == Contains(msg, CancelMsg)

\* Variant: the slots of the terminal signals leave the render button off.
RenderBtnAfterSignalDisabled == FALSE

\* handle_success, handle_error: self.render_btn.setEnabled(True)
RenderBtnAfterSignal == TRUE

handle_success(w) ==
    /\ status' = "Rendering Complete!"
    /\ pbar' = 100
    /\ render_btn' = RenderBtnAfterSignal
    /\ cancel_btn' = FALSE
    /\ outcome' = [outcome EXCEPT ![w] = "Completed"]

handle_error(w, err_msg) ==
    /\ render_btn' = RenderBtnAfterSignal
    /\ cancel_btn' = FALSE
    /\ IF IsCancelMsg(err_msg)
       THEN /\ status' = "Render Cancelled"
            /\ pbar' = 0
            /\ outcome' = [outcome EXCEPT ![w] = "Cancelled"]
       ELSE /\ status' = "Rendering Failed"
            /\ pbar' = pbar
            /\ outcome' = [outcome EXCEPT ![w] = "Failed"]

\* The GUI thread's event loop delivers the oldest queued signal to its slot.
DeliverSignal ==
    /\ queue # <<>>
    /\ queue' = Tail(queue)
    /\ LET s == Head(queue) IN
        CASE s.kind = "progress" ->
                /\ pbar' = s.val
                /\ UNCHANGED <<render_btn, cancel_btn, status, outcome>>
          [] s.kind = "success" -> handle_success(s.w)
          [] s.kind = "error" -> handle_error(s.w, s.val)
    /\ UNCHANGED <<nWorkers, workerVars>>
    /\ UNCHANGED <<emitted, term, raised, observed, obsLen, reqAt, cbDone>>
    /\ UNCHANGED <<layerVars, lrcVars, extVars>>

\* ================================================================ run_render
\* ---------------------------------------------------------- the layer list
Min(a, b) == IF a <= b THEN a ELSE b

\* list.insert(i, x): before position i (counted from 0), at the end when the
\* list is shorter.
ListInsert(l, i, x) ==
    SubSeq(l, 1, Min(i, Len(l))) \o <<x>> \o SubSeq(l, Min(i, Len(l)) + 1, Len(l))

Repeat(x, n) == [i \in 1..n |-> x]

\* audio_data is loaded for the spectrum or the beat bounce.
audio_data == config.spectrum \/ config.lyrics_bounce

\* if config.get('lyrics_file') and os.path.exists(config['lyrics_file'])
LyricsFilePresent == config.lyrics_file = "ok"

\* bg, resized to the output size, is the first clip.
StepBackground ==
    /\ rpc = "background"
    /\ clips' = <<"bg">>
    /\ rpc' = "spectrum"
    /\ UNCHANGED <<config, subs, jobVars, lrcVars, extVars>>

\* The spectrum block never appends its clip: VideoClip(make_frame) asks for
\* the frame at t = 0, which raises for the styles drawn with numpy, and the
\* next statement names make_mask, which nothing defines (NameError).
StepSpectrum ==
    /\ rpc = "spectrum"
    /\ clips' = clips
    /\ rpc' = IF config.spectrum /\ audio_data THEN "raised_spectrum" ELSE "logo"
    /\ UNCHANGED <<config, subs, jobVars, lrcVars, extVars>>

\* ImageClip(config['logo']) raises when the file cannot be read.
StepLogo ==
    /\ rpc = "logo"
    /\ IF config.logo = "" THEN clips' = clips /\ rpc' = "progressbar"
       ELSE IF config.logo = "missing" THEN clips' = clips /\ rpc' = "raised_logo"
       ELSE clips' = Append(clips, "logo") /\ rpc' = "progressbar"
    /\ UNCHANGED <<config, subs, jobVars, lrcVars, extVars>>

StepProgressBar ==
    /\ rpc = "progressbar"
    /\ clips' = IF config.progressbar_enabled THEN Append(clips, "progressbar") ELSE clips
    /\ rpc' = "text"
    /\ UNCHANGED <<config, subs, jobVars, lrcVars, extVars>>

StepText ==
    /\ rpc = "text"
    /\ clips' = IF config.text THEN Append(clips, "title") ELSE clips
    /\ rpc' = IF LyricsFilePresent THEN "dim" ELSE "composite"
    /\ UNCHANGED <<config, subs, jobVars, lrcVars, extVars>>

\* clips.insert(1, dim_clip)
StepLyricsDim ==
    /\ rpc = "dim"
    /\ clips' = IF config.lyrics_bg_dim THEN ListInsert(clips, 1, "dim") ELSE clips
    /\ rpc' = "parse"
    /\ UNCHANGED <<config, subs, jobVars, lrcVars, extVars>>

\* subs: the cues of the .srt or .lrc file; none for another extension or
\* when the parse fails.
StepLyricsParse ==
    /\ rpc = "parse"
    /\ subs' = config.cues
    /\ rpc' = IF config.cues > 0 THEN "box" ELSE "composite"
    /\ UNCHANGED <<config, clips, jobVars, lrcVars, extVars>>

\* clips.insert(2, bg_box)
StepLyricsBox ==
    /\ rpc = "box"
    /\ clips' = IF config.lyrics_box_enabled THEN ListInsert(clips, 2, "box") ELSE clips
    /\ rpc' = "lyrics"
    /\ UNCHANGED <<config, subs, jobVars, lrcVars, extVars>>

\* The lyric text clips of the branch taken: scrolling and karaoke add one
\* clip per cue, bounce and plain one clip for the track.
LyricsClips ==
    IF config.lyrics_scrolling THEN Repeat("lyrics", subs)
    ELSE IF config.lyrics_karaoke THEN Repeat("lyrics", subs)
    ELSE IF config.lyrics_bounce /\ audio_data THEN <<"lyrics">>
    ELSE <<"lyrics">>

\* The cues counted here have text and a positive duration. The karaoke loop
\* rebinds w, the frame width, to the last word of a cue (for w in words), so
\* the width test of the second cue raises TypeError and nothing is added.
KaraokeRaises == ~config.lyrics_scrolling /\ config.lyrics_karaoke /\ subs >= 2

\* .fl(fade_filter) evaluates the new scrolling clip at t = 0, and
\* fade_filter writes a fourth channel of the RGB text frame whenever the
\* opacity is below 1: IndexError for the second cue, whose opacity at 0 is 0,
\* and for a first cue that does not start at 0.
ScrollingRaises(first_at_zero) ==
    config.lyrics_scrolling /\ subs >= 1 /\ (subs >= 2 \/ ~first_at_zero)

StepLyricsText ==
    /\ rpc = "lyrics"
    /\ \E first_at_zero \in BOOLEAN :
            /\ clips' = IF KaraokeRaises \/ ScrollingRaises(first_at_zero) THEN clips
                        ELSE clips \o LyricsClips
            /\ rpc' = IF ScrollingRaises(first_at_zero) THEN "raised_scrolling"
                      ELSE IF KaraokeRaises THEN "raised_karaoke"
                      ELSE "composite"
    /\ UNCHANGED <<config, subs, jobVars, lrcVars, extVars>>

\* final = CompositeVideoClip(clips)
StepComposite ==
    /\ rpc = "composite"
    /\ rpc' = "done"
    /\ UNCHANGED <<config, clips, subs, jobVars, lrcVars, extVars>>

Configs ==
    [spectrum : BOOLEAN, logo : {"", "ok", "missing"}, progressbar_enabled : BOOLEAN,
     text : BOOLEAN, lyrics_file : {"", "ok", "missing"}, cues : 0..MaxCues,
     lyrics_bg_dim : BOOLEAN, lyrics_box_enabled : BOOLEAN,
     lyrics_bounce : BOOLEAN, lyrics_karaoke : BOOLEAN, lyrics_scrolling : BOOLEAN]

IdleConfig ==
    [spectrum |-> FALSE, logo |-> "", progressbar_enabled |-> FALSE,
     text |-> FALSE, lyrics_file |-> "", cues |-> 0,
     lyrics_bg_dim |-> FALSE, lyrics_box_enabled |-> FALSE,
     lyrics_bounce |-> FALSE, lyrics_karaoke |-> FALSE, lyrics_scrolling |-> FALSE]

IdleLayers ==
    /\ config = IdleConfig
    /\ clips = <<>>
    /\ subs = 0
    /\ rpc = "idle"

NextLayers ==
    \/ StepBackground
    \/ StepSpectrum
    \/ StepLogo
    \/ StepProgressBar
    \/ StepText
    \/ StepLyricsDim
    \/ StepLyricsParse
    \/ StepLyricsBox
    \/ StepLyricsText
    \/ StepComposite


\* ============================================================ .lrc parsing
\* A stripped line is: whether it starts with '[' and holds a ']', the parts
\* of the text between them split at ':', and the stripped text after ']'.
\* A part is a number float() accepts, or other text.
Num(n) == [num |-> TRUE, val |-> n]
Txt == [num |-> FALSE, val |-> 0]

LyricLine(mm, ss, text) == [bracket |-> TRUE, parts |-> <<Num(mm), Num(ss)>>, content |-> text]
\* A metadata tag such as [ar:Artist]: two parts, neither a number.
MetaLine == [bracket |-> TRUE, parts |-> <<Txt, Txt>>, content |-> ""]
\* A line without a bracket tag.
PlainLine == [bracket |-> FALSE, parts |-> <<>>, content |-> "a"]

\* last cue of the preview parser: s + 10.0
TailSeconds == 10

\* float(parts[0])*60 + float(parts[1]) raises ValueError on other text.
RaisesValueError(parts) == ~parts[1].num \/ ~parts[2].num

Seconds(parts) == parts[1].val * 60 + parts[2].val

\* if line.startswith('[') and ']' in line: ... if len(parts) == 2:
IsTimeTag(line) == line.bracket /\ Len(line.parts) = 2

\* One pass of the first loop, `for line in lines`. The preview parser skips
\* a line whose float() raises; in run_render the ValueError leaves the loop
\* for the except clause of the whole .lrc branch, and subs stays empty.
LrcLine ==
    /\ lrcPc = "lines"
    /\ lrcI <= Len(lrcLines)
    /\ LET line == lrcLines[lrcI] IN
        IF IsTimeTag(line) /\ RaisesValueError(line.parts)
        THEN IF lrcParser = "engine"
             THEN /\ lrcPc' = "done"
                  /\ lrcFailed' = TRUE
                  /\ UNCHANGED <<lrcI, parsed>>
             ELSE /\ lrcI' = lrcI + 1
                  /\ UNCHANGED <<lrcPc, lrcFailed, parsed>>
        ELSE /\ parsed' = IF IsTimeTag(line)
                          THEN Append(parsed, [sec |-> Seconds(line.parts), content |-> line.content])
                          ELSE parsed
             /\ lrcI' = lrcI + 1
             /\ UNCHANGED <<lrcPc, lrcFailed>>
    /\ UNCHANGED <<lrcParser, lrcLines, lrcDur, lrcSubs, jobVars, layerVars, extVars>>

\* The first loop ends; `for i in range(len(parsed))` starts.
LrcLinesEnd ==
    /\ lrcPc = "lines"
    /\ lrcI > Len(lrcLines)
    /\ lrcPc' = "ends"
    /\ lrcI' = 1
    /\ UNCHANGED <<lrcParser, lrcLines, lrcDur, parsed, lrcSubs, lrcFailed, jobVars, layerVars, extVars>>

\* run_render: e = parsed[i+1][0] if i < len(parsed)-1 else dur; e = min(e, dur)
EngineEnd(i) == Min(IF i < Len(parsed) THEN parsed[i + 1].sec ELSE lrcDur, lrcDur)

\* parse_lyrics: e = parsed[i+1][0] if i < len(parsed)-1 else s + 10.0
GuiEnd(i) == IF i < Len(parsed) THEN parsed[i + 1].sec ELSE parsed[i].sec + TailSeconds

Cue(s, e, t) == [s |-> s, e |-> e, t |-> t]

\* One pass of the second loop: lines with empty text give no cue; run_render
\* keeps a cue only if it starts before dur.
LrcEnd ==
    /\ lrcPc = "ends"
    /\ lrcI <= Len(parsed)
    /\ lrcI' = lrcI + 1
    /\ lrcSubs' =
          IF parsed[lrcI].content = "" THEN lrcSubs
          ELSE IF lrcParser = "engine"
          THEN IF parsed[lrcI].sec < lrcDur
               THEN Append(lrcSubs, Cue(parsed[lrcI].sec, EngineEnd(lrcI), parsed[lrcI].content))
               ELSE lrcSubs
          ELSE Append(lrcSubs, Cue(parsed[lrcI].sec, GuiEnd(lrcI), parsed[lrcI].content))
    /\ UNCHANGED <<lrcParser, lrcLines, lrcDur, lrcPc, parsed, lrcFailed, jobVars, layerVars, extVars>>

LrcEndsEnd ==
    /\ lrcPc = "ends"
    /\ lrcI > Len(parsed)
    /\ lrcPc' = "done"
    /\ UNCHANGED <<lrcParser, lrcLines, lrcDur, lrcI, parsed, lrcSubs, lrcFailed, jobVars, layerVars, extVars>>

\* The lines of the files checked: lyric lines at 0:00, 0:05 and 1:10 with
\* text or without, a metadata tag, a line without a tag.
LrcAlphabet ==
    {LyricLine(t[1], t[2], c) : t \in {<<0, 0>>, <<0, 5>>, <<1, 10>>}, c \in {"", "a"}}
        \cup {MetaLine, PlainLine}

LrcFiles == UNION {[1..n -> LrcAlphabet] : n \in 0..MaxLines}

\* Scenario B renders 8 s; the GUI passes whole minutes.
LrcDurations == {8, 60}

IdleLrc ==
    /\ lrcParser = "engine"
    /\ lrcLines = <<>>
    /\ lrcDur = 0
    /\ lrcPc = "idle"
    /\ lrcI = 1
    /\ parsed = <<>>
    /\ lrcSubs = <<>>
    /\ lrcFailed = FALSE

NextLrc ==
    \/ LrcLine
    \/ LrcLinesEnd
    \/ LrcEnd
    \/ LrcEndsEnd

\* ====================================================== lyric option widgets
\* PreviewArea.set_lyrics_settings, as apply_lyrics_preview calls it: the
\* widgets' states are copied to the preview; a named position sets the
\* relative position (in tenths of the frame), "Custom" keeps it.
set_lyrics_settings(enabled, pos_str, bounce, karaoke, scrolling, bg_dim, box_enabled) ==
    [active_drag |-> "lyrics",
     lyrics_enabled |-> enabled,
     lyrics_bounce_enabled |-> bounce,
     lyrics_karaoke_enabled |-> karaoke,
     lyrics_scrolling_enabled |-> scrolling,
     lyrics_bg_dim |-> bg_dim,
     lyrics_box_enabled |-> box_enabled,
     lyrics_rel_pos |-> IF pos_str = "Top" THEN <<5, 1>>
                        ELSE IF pos_str = "Center" THEN <<5, 5>>
                        ELSE IF pos_str = "Bottom" THEN <<5, 8>>
                        ELSE preview.lyrics_rel_pos]

\* apply_lyrics_preview runs on every stateChanged and as the last statement
\* of on_lyrics_mode_changed: when a handler returns the preview holds the
\* states the widgets then have.
apply_lyrics_preview ==
    preview' = set_lyrics_settings(lyrics_path' # "", lyrics_pos_box',
                                   lyrics_bounce_chk', lyrics_karaoke_chk', lyrics_scroll_chk',
                                   lyrics_dim_chk', lyrics_box_chk')

\* A click toggles the box, then `clicked` runs on_lyrics_mode_changed: when
\* the sender is now checked the other two mode boxes are unchecked
\* (setChecked emits stateChanged, never clicked).
on_lyrics_mode_changed(sender) ==
    LET now == [bounce |-> lyrics_bounce_chk, karaoke |-> lyrics_karaoke_chk,
                scroll |-> lyrics_scroll_chk]
        toggled == [now EXCEPT ![sender] = ~now[sender]]
        after(box) == IF toggled[sender] /\ box # sender THEN FALSE ELSE toggled[box]
    IN  /\ lyrics_bounce_chk' = after("bounce")
        /\ lyrics_karaoke_chk' = after("karaoke")
        /\ lyrics_scroll_chk' = after("scroll")
        /\ UNCHANGED <<lyrics_dim_chk, lyrics_box_chk, lyrics_pos_box, lyrics_path>>
        /\ apply_lyrics_preview
        /\ UNCHANGED <<coreVars, spectrumVars, lyricVars, sceneVars>>

ClickBounce == on_lyrics_mode_changed("bounce")

ClickKaraoke == on_lyrics_mode_changed("karaoke")

ClickScroll == on_lyrics_mode_changed("scroll")

\* The dim and box check boxes are connected to apply_lyrics_preview only.
ClickDim ==
    /\ lyrics_dim_chk' = ~lyrics_dim_chk
    /\ UNCHANGED <<lyrics_bounce_chk, lyrics_karaoke_chk, lyrics_scroll_chk,
                   lyrics_box_chk, lyrics_pos_box, lyrics_path>>
    /\ apply_lyrics_preview
    /\ UNCHANGED <<coreVars, spectrumVars, lyricVars, sceneVars>>

ClickBox ==
    /\ lyrics_box_chk' = ~lyrics_box_chk
    /\ UNCHANGED <<lyrics_bounce_chk, lyrics_karaoke_chk, lyrics_scroll_chk,
                   lyrics_dim_chk, lyrics_pos_box, lyrics_path>>
    /\ apply_lyrics_preview
    /\ UNCHANGED <<coreVars, spectrumVars, lyricVars, sceneVars>>

\* The lyric fields of a preset file: any JSON booleans, a named position,
\* and the path of a lyrics file that exists ("ok") or no path.
Presets ==
    [lyrics_bounce : BOOLEAN, lyrics_karaoke : BOOLEAN, lyrics_scrolling : BOOLEAN,
     lyrics_bg_dim : BOOLEAN, lyrics_box_enabled : BOOLEAN,
     lyrics_pos : {"Bottom", "Top"}, lyrics_path : {"", "ok"}]

\* load_preset: each widget is set from its own field of the file, then the
\* previews are refreshed.
load_preset(data) ==
    /\ lyrics_path' = IF data.lyrics_path # "" THEN data.lyrics_path ELSE lyrics_path
    /\ lyrics_pos_box' = data.lyrics_pos
    /\ lyrics_bounce_chk' = data.lyrics_bounce
    /\ lyrics_karaoke_chk' = data.lyrics_karaoke
    /\ lyrics_scroll_chk' = data.lyrics_scrolling
    /\ lyrics_dim_chk' = data.lyrics_bg_dim
    /\ lyrics_box_chk' = data.lyrics_box_enabled
    /\ apply_lyrics_preview
    /\ UNCHANGED <<coreVars, spectrumVars, lyricVars, sceneVars>>

LoadPreset == \E data \in Presets : load_preset(data)

\* MainWindow.__init__ and PreviewArea.__init__.
InitGui ==
    /\ lyrics_bounce_chk = FALSE
    /\ lyrics_karaoke_chk = FALSE
    /\ lyrics_scroll_chk = FALSE
    /\ lyrics_dim_chk = FALSE
    /\ lyrics_box_chk = FALSE
    /\ lyrics_pos_box = "Bottom"
    /\ lyrics_path = ""
    /\ preview = [active_drag |-> "text", lyrics_enabled |-> FALSE,
                  lyrics_bounce_enabled |-> FALSE, lyrics_karaoke_enabled |-> FALSE,
                  lyrics_scrolling_enabled |-> FALSE, lyrics_bg_dim |-> FALSE,
                  lyrics_box_enabled |-> FALSE, lyrics_rel_pos |-> <<5, 8>>]

NextGui ==
    \/ ClickBounce
    \/ ClickKaraoke
    \/ ClickScroll
    \/ ClickDim
    \/ ClickBox
    \/ LoadPreset

\* ============================================================ spectrum layer
\* ------------------------------------------------------ exact float values
\* The heights are floats; the model keeps them exact, as fractions <<n, d>>
\* in lowest terms with d > 0.
RECURSIVE GCD(_, _)
GCD(a, b) == IF b = 0 THEN a ELSE GCD(b, a % b)

Abs(n) == IF n < 0 THEN -n ELSE n

Rat(n, d) == LET g == GCD(Abs(n), d) IN <<n \div g, d \div g>>

RMul(a, b) == Rat(a[1] * b[1], a[2] * b[2])

RAdd(a, b) == Rat(a[1] * b[2] + b[1] * a[2], a[2] * b[2])

RSub(a, b) == Rat(a[1] * b[2] - b[1] * a[2], a[2] * b[2])

RLe(a, b) == a[1] * b[2] <= b[1] * a[2]

RAbs(a) == <<Abs(a[1]), a[2]>>

\* int(x) of a float that is not negative.
RInt(a) == a[1] \div a[2]

\* np.clip(x, lo, hi) with integer limits.
RClip(a, lo, hi) == IF RLe(a, <<lo, 1>>) THEN <<lo, 1>>
                    ELSE IF RLe(<<hi, 1>>, a) THEN <<hi, 1>> ELSE a

\* ---------------------------------------------------------- the height table
\* h of a 16:9 render at 720p.
FrameH == 720

num_bars == 50

sensitivity == Rat(spectrum_cfg.spectrum_sensitivity, 100)

alpha == RSub(<<1, 1>>, Rat(spectrum_cfg.spectrum_smoothness, 100))

scale_factor == RMul(<<6, 1>>, Rat(spectrum_cfg.spectrum_size, 50))

\* bar_heights = bar_heights * sensitivity
StepSensitivity ==
    /\ spc = "sensitivity"
    /\ bar_heights' = [t \in DOMAIN stft |-> RMul(<<stft[t], 1>>, sensitivity)]
    /\ spc' = "smoothing"
    /\ UNCHANGED <<spectrum_cfg, stft, smoothed, heights, spec_cache, requested, specResult>>
    /\ UNCHANGED <<coreVars, chkVars, lyricVars, sceneVars>>

\* if smoothness > 0: smoothed[:, 0] = bar_heights[:, 0]; without smoothing
\* the heights go on as they are.
StepSmoothing ==
    /\ spc = "smoothing"
    /\ IF spectrum_cfg.spectrum_smoothness > 0
       THEN smoothed' = <<bar_heights[1]>> /\ spc' = "smooth_loop"
       ELSE smoothed' = bar_heights /\ spc' = "scale"
    /\ UNCHANGED <<spectrum_cfg, stft, bar_heights, heights, spec_cache, requested, specResult>>
    /\ UNCHANGED <<coreVars, chkVars, lyricVars, sceneVars>>

\* Variant: the new frame is added to the whole of the previous one.
SmoothNextUndamped(a, raw, prev) == RAdd(RMul(a, raw), prev)

\* alpha * bar_heights[:, t] + (1 - alpha) * smoothed[:, t-1]
SmoothNext(a, raw, prev) == RAdd(RMul(a, raw), RMul(RSub(<<1, 1>>, a), prev))

\* for t in range(1, bar_heights.shape[1]): one pass of the loop, or its end.
StepSmoothLoop ==
    /\ spc = "smooth_loop"
    /\ IF Len(smoothed) < Len(bar_heights)
       THEN /\ smoothed' = Append(smoothed,
                    SmoothNext(alpha, bar_heights[Len(smoothed) + 1], smoothed[Len(smoothed)]))
            /\ spc' = spc
       ELSE /\ smoothed' = smoothed
            /\ spc' = "scale"
    /\ UNCHANGED <<spectrum_cfg, stft, bar_heights, heights, spec_cache, requested, specResult>>
    /\ UNCHANGED <<coreVars, chkVars, lyricVars, sceneVars>>

\* bar_heights = np.clip(bar_heights * scale_factor, 0, h // 2)
StepScale ==
    /\ spc = "scale"
    /\ heights' = [t \in DOMAIN smoothed |->
                        RClip(RMul(smoothed[t], scale_factor), 0, FrameH \div 2)]
    /\ spc' = "frames"
    /\ UNCHANGED <<spectrum_cfg, stft, bar_heights, smoothed, spec_cache, requested, specResult>>
    /\ UNCHANGED <<coreVars, chkVars, lyricVars, sceneVars>>

\* --------------------------------------------------------- make_spectrum_rgba
\* What a call gives: a frame (an array with 3 or 4 channels, on which a
\* shape was or was not drawn) or an exception.
NoResult == [kind |-> "none", exc |-> "", channels |-> 0, drawn |-> FALSE]

Frame(channels, drawn) ==
    [kind |-> "frame", exc |-> "", channels |-> channels, drawn |-> drawn]

Raise(exc) == [kind |-> "error", exc |-> exc, channels |-> 0, drawn |-> FALSE]

CacheLimit == 60

\* Variant: the cache is never cleared.
CacheStoreNoClear(cache, frame_idx, frame) ==
    [i \in DOMAIN cache \cup {frame_idx} |-> IF i = frame_idx THEN frame ELSE cache[i]]

\* if len(_spec_cache) > 60: _spec_cache.clear()
\* _spec_cache[frame_idx] = frame
CacheStore(cache, frame_idx, frame) ==
    LET kept == IF Cardinality(DOMAIN cache) > CacheLimit THEN <<>> ELSE cache
    IN  [i \in DOMAIN kept \cup {frame_idx} |-> IF i = frame_idx THEN frame ELSE kept[i]]

\* make_spectrum_rgba for the frame with number k of the clip (t = k / fps).
\* A cached frame is returned. Circle, Line and Filled Line draw on a PIL
\* image; the second Line and Filled Line blocks then return a new RGB image
\* (3 channels, never cached); Circle goes on to the bar loop, whose default
\* branch writes the 3 values of config['color'] to the RGBA array
\* (ValueError) for a bar with bh > 0, and caches the frame when no bar has
\* one. The other styles read cx (bh > 0) or pil_img (return) of the branch
\* not taken: UnboundLocalError.
spectrum_rgba(cache, k) ==
    LET frame_idx == k % Len(heights)
        bh == RInt(heights[frame_idx + 1])
        style == spectrum_cfg.spectrum_style
        frame == Frame(4, FALSE)
    IN  IF frame_idx \in DOMAIN cache
          THEN [result |-> cache[frame_idx], cache |-> cache]
        ELSE IF style = "Line"
          THEN [result |-> Frame(3, num_bars > 1), cache |-> cache]
        ELSE IF style = "Filled Line"
          THEN [result |-> Frame(3, num_bars > 0), cache |-> cache]
        ELSE IF style = "Circle"
          THEN IF bh > 0
               THEN [result |-> Raise("ValueError"), cache |-> cache]
               ELSE [result |-> frame, cache |-> CacheStore(cache, frame_idx, frame)]
        ELSE [result |-> Raise("UnboundLocalError"), cache |-> cache]

\* The call with _spec_cache as it stands.
make_spectrum_rgba(k) == spectrum_rgba(spec_cache, k)

\* make_mask, the function the mask clip is built from: run_render names it
\* and nothing defines it, so the name raises NameError.
make_mask(k) == Raise("NameError")

\* make_frame(t), called by the clip for the next frame or once more for the
\* frame it asked last; an exception ends the render. The clip is one frame
\* longer than the spectrogram: its last frame wraps to frame index 0.
make_frame(k) ==
    LET r == make_spectrum_rgba(k)
    IN  /\ specResult' = r.result
        /\ spec_cache' = r.cache
        /\ requested' = IF k + 1 > requested THEN k + 1 ELSE requested
        /\ spc' = IF r.result.kind = "error" THEN "raised" ELSE spc

MakeFrame ==
    /\ spc = "frames"
    /\ \E k \in {requested - 1, requested} \cap (0..Len(heights)) : make_frame(k)
    /\ UNCHANGED <<spectrum_cfg, stft, bar_heights, smoothed, heights>>
    /\ UNCHANGED <<coreVars, chkVars, lyricVars, sceneVars>>

\* ------------------------------------------------------------------- inputs
Styles == {"Bars", "Mirrored", "Dots", "Circle", "Line", "Filled Line", "Blocks"}

SpectrumConfigs ==
    [spectrum_style : Styles, spectrum_pos : {"Bottom", "Top"},
     spectrum_size : {50, 100}, spectrum_sensitivity : {50, 100},
     spectrum_smoothness : {0, 25, 50, 100}]

\* The magnitudes a frame of the spectrogram takes.
Levels == {0, 10, 100}

\* Short spectrograms of any shape, and long ones constant over time.
Spectrograms ==
    UNION {[1..n -> Levels] : n \in 1..MaxSpecFrames}
        \cup {[t \in 1..MaxRenderFrames |-> v] : v \in Levels}

IdleSpectrum ==
    /\ spectrum_cfg = [spectrum_style |-> "Bars", spectrum_pos |-> "Bottom",
                       spectrum_size |-> 50, spectrum_sensitivity |-> 100,
                       spectrum_smoothness |-> 0]
    /\ stft = <<>>
    /\ bar_heights = <<>>
    /\ smoothed = <<>>
    /\ heights = <<>>
    /\ spc = "idle"
    /\ spec_cache = <<>>
    /\ requested = 0
    /\ specResult = NoResult

NextSpectrum ==
    \/ StepSensitivity
    \/ StepSmoothing
    \/ StepSmoothLoop
    \/ StepScale
    \/ MakeFrame

\* =============================================================== lyric clips
\* ------------------------------------------------------- the virtual index
\* The value of a call: a float, or the exception it raised.
Val(r) == [exc |-> "", v |-> r]

Exc(name) == [exc |-> name, v |-> <<0, 1>>]

ScrollTail == 5

\* timings[i] = (s, e, next_s), i counted from 0 as in Python.
timings(i) ==
    [s |-> lyr_subs[i + 1].s, e |-> lyr_subs[i + 1].e,
     next_s |-> IF i < Len(lyr_subs) - 1 THEN lyr_subs[i + 2].s
                ELSE lyr_subs[i + 1].e + ScrollTail]

\* get_v_idx(t): the passes of the loop from cue i on, then the two returns
\* after the loop.
RECURSIVE VIdxFrom(_, _)
VIdxFrom(i, t) ==
    IF i >= Len(lyr_subs)
    THEN IF Len(lyr_subs) > 0 /\ t >= lyr_subs[Len(lyr_subs)].e
         THEN Val(<<Len(lyr_subs), 1>>)
         ELSE Val(<<-1, 1>>)
    ELSE LET c == timings(i)
         IN  IF c.s <= t /\ t <= c.e
             THEN IF c.e = c.s THEN Exc("ZeroDivisionError")
                  ELSE Val(RAdd(<<i, 1>>, Rat(t - c.s, c.e - c.s)))
             ELSE IF c.e < t /\ t < c.next_s THEN Val(<<i + 1, 1>>)
             ELSE VIdxFrom(i + 1, t)

get_v_idx(t) == VIdxFrom(0, t)

\* The virtual index of PreviewArea.paintEvent: the first cue that holds the
\* time or starts after it decides; len(full_lyrics) when there is none.
RECURSIVE PreviewVIdxFrom(_, _)
PreviewVIdxFrom(i, t) ==
    IF i >= Len(lyr_subs) THEN Val(<<Len(lyr_subs), 1>>)
    ELSE LET c == lyr_subs[i + 1]
         IN  IF c.s <= t /\ t <= c.e
             THEN IF c.e = c.s THEN Exc("ZeroDivisionError")
                  ELSE Val(RAdd(<<i, 1>>, Rat(t - c.s, c.e - c.s)))
             ELSE IF t < c.s THEN (IF i = 0 THEN Val(<<-1, 1>>) ELSE Val(<<i, 1>>))
             ELSE PreviewVIdxFrom(i + 1, t)

preview_v_idx(t) == PreviewVIdxFrom(0, t)

\* get_v_idx at the next second of the render.
GetVIdx ==
    /\ lyr_pc = "index"
    /\ scroll_t < MaxTime
    /\ scroll_t' = scroll_t + 1
    /\ v_engine' = get_v_idx(scroll_t + 1)
    /\ v_prev' = v_engine
    /\ UNCHANGED <<lyr_mode, lyr_subs, lyr_pc, lyr_next, locals, lyr_clips, lyr_exc, lyr_eval,
                   preview_t, v_preview>>
    /\ UNCHANGED <<coreVars, chkVars, spectrumVars, sceneVars>>

\* paintEvent of the preview at a playback time.
PaintPreview ==
    /\ lyr_pc = "index"
    /\ \E t \in 0..MaxTime :
            /\ preview_t' = t
            /\ v_preview' = preview_v_idx(t)
    /\ UNCHANGED <<lyr_mode, lyr_subs, lyr_pc, lyr_next, locals, lyr_clips, lyr_exc, lyr_eval,
                   scroll_t, v_engine, v_prev>>
    /\ UNCHANGED <<coreVars, chkVars, spectrumVars, sceneVars>>

\* ------------------------------------------------------- scrolling clips
\* cy = int(h * 0.8) for the position "Bottom".
lyrics_cy == (FrameH * 8) \div 10

l_fontsize == 50

\* line_spacing = int(l_fontsize * 1.5)
line_spacing == (l_fontsize * 3) \div 2

\* The frames of a TextClip have the channels R, G, B; moviepy keeps the
\* alpha of the text in the clip's mask.
TextClipChannels == 3

\* The channel fade_filter scales: frame[:, :, 3].
AlphaChannel == 3

\* opacity = max(0.0, 1.0 - abs(i - v))
Opacity(i, v) ==
    LET dist == RAbs(RSub(<<i, 1>>, v))
    IN  IF RLe(<<1, 1>>, dist) THEN <<0, 1>> ELSE RSub(<<1, 1>>, dist)

NoEval == [t |-> -1, clip |-> -1, index_used |-> -1, v |-> <<0, 1>>, y |-> 0,
           opacity |-> <<0, 1>>, prog |-> <<0, 1>>, dur_used |-> 0, idx |-> 0,
           past_end |-> <<0, 1>>, cur_start |-> <<0, 1>>, cur_end |-> <<0, 1>>]

\* make_pos(t) and fade_filter(get_frame, t) of a clip, with i as the loop
\* variable of run_render stands when they are called: the closures hold the
\* variable, not the value it had when they were defined. With opacity < 1
\* fade_filter writes frame[:, :, 3], a channel the frame does not have.
ScrollEval(k, i, t) ==
    LET r == get_v_idx(t)
        op == Opacity(i, r.v)
    IN  IF r.exc # "" THEN [exc |-> r.exc, eval |-> NoEval]
        ELSE [exc |-> IF op # <<1, 1>> /\ AlphaChannel >= TextClipChannels
                      THEN "IndexError" ELSE "",
              eval |-> [NoEval EXCEPT !.t = t, !.clip = k, !.index_used = i, !.v = r.v,
                            !.y = RInt(RAdd(<<lyrics_cy, 1>>,
                                            RMul(RSub(<<i, 1>>, r.v), <<line_spacing, 1>>))),
                            !.opacity = op]]

\* for i, ((s, e), txt) in enumerate(subs): one pass, or the end of the loop.
\* .fl(fade_filter) calls fade_filter for t = 0 to learn the size of the new
\* clip; an exception there leaves run_render.
ScrollLoop ==
    /\ lyr_pc = "scroll_loop"
    /\ IF lyr_next > Len(lyr_subs)
       THEN /\ lyr_pc' = "built"
            /\ UNCHANGED <<lyr_next, locals, lyr_clips, lyr_exc>>
       ELSE LET i == lyr_next - 1
                first == ScrollEval(i, i, 0)
            IN  /\ locals' = [locals EXCEPT !.i = i]
                /\ IF first.exc # ""
                   THEN /\ lyr_pc' = "raised"
                        /\ lyr_exc' = first.exc
                        /\ UNCHANGED <<lyr_next, lyr_clips>>
                   ELSE /\ lyr_clips' = Append(lyr_clips,
                                [cue |-> i, start |-> 0, duration |-> MaxTime])
                        /\ lyr_next' = lyr_next + 1
                        /\ UNCHANGED <<lyr_pc, lyr_exc>>
    /\ UNCHANGED <<lyr_mode, lyr_subs, lyr_eval, scroll_t, v_engine, v_prev, preview_t, v_preview>>
    /\ UNCHANGED <<coreVars, chkVars, spectrumVars, sceneVars>>

\* The compositor asks a scrolling clip for its position and its frame at a
\* frame time.
ScrollFrame ==
    /\ lyr_pc = "built"
    /\ lyr_mode = "scrolling"
    /\ \E k \in 1..Len(lyr_clips) : \E t \in 0..(MaxTime - 1) :
            LET r == ScrollEval(lyr_clips[k].cue, locals.i, t)
            IN  /\ lyr_eval' = r.eval
                /\ lyr_exc' = r.exc
                /\ lyr_pc' = IF r.exc # "" THEN "raised" ELSE lyr_pc
    /\ UNCHANGED <<lyr_mode, lyr_subs, lyr_next, locals, lyr_clips,
                   scroll_t, v_engine, v_prev, preview_t, v_preview>>
    /\ UNCHANGED <<coreVars, chkVars, spectrumVars, sceneVars>>

\* --------------------------------------------------------- karaoke clips
\* sum(len(w) + 1 for w in words) over the first n words.
RECURSIVE Weight(_, _)
Weight(words, n) == IF n = 0 THEN 0 ELSE Weight(words, n - 1) + words[n] + 1

\* Variant: every word gets the same share, whatever its length.
WordTimingsEqual(words) ==
    [j \in 1..Len(words) |-> <<Rat(j - 1, Len(words)), Rat(j, Len(words))>>]

\* word_timings: (start_p, end_p) of every word, as shares of total_weight
\* (1 when there is no word).
WordTimings(words) ==
    LET total_weight == IF Weight(words, Len(words)) = 0 THEN 1
                        ELSE Weight(words, Len(words))
    IN  [j \in 1..Len(words) |->
            <<Rat(Weight(words, j - 1), total_weight), Rat(Weight(words, j), total_weight)>>]

\* idx of the wipes: the last word with prog >= start_p, 0 when there is none.
RECURSIVE WordIndex(_, _, _)
WordIndex(word_timings, prog, n) ==
    IF n = 0 THEN 0
    ELSE IF RLe(word_timings[n][1], prog) THEN n - 1
    ELSE WordIndex(word_timings, prog, n - 1)

\* The columns the wipes keep of the mask, as shares of txt_w: boundaries
\* stays empty (the RGB frame of the text has no channel 3 to find the gaps
\* in), so the limits are int(txt_w * end_p) of word_timings. past_mask_wipe
\* keeps nothing for idx = 0 and the columns before the end of word idx - 1
\* otherwise; current_mask_wipe keeps the columns from there to the end of
\* word idx. idx counts from 0, word_timings from 1.
PastLimit(word_timings, idx) == IF idx = 0 THEN <<0, 1>> ELSE word_timings[idx][2]

CurrentStart(word_timings, idx) == IF idx > 0 THEN word_timings[idx][2] ELSE <<0, 1>>

CurrentEnd(word_timings, idx) == word_timings[idx + 1][2]

\* for (start, end), txt in subs: one pass, or the end of the loop. A cue of
\* no positive duration is passed over after dur_chunk was set. The width
\* test reads w, which `for w in words` of an earlier pass has bound to a
\* word (a str): TypeError. The parser keeps no cue without text, so words
\* has a word in every pass.
KaraokeLoop ==
    /\ lyr_pc = "karaoke_loop"
    /\ IF lyr_next > Len(lyr_subs)
       THEN /\ lyr_pc' = "built"
            /\ UNCHANGED <<lyr_next, locals, lyr_clips, lyr_exc>>
       ELSE LET c == lyr_subs[lyr_next]
                dur_chunk == c.e - c.s
            IN  IF dur_chunk <= 0
                THEN /\ locals' = [locals EXCEPT !.dur_chunk = dur_chunk]
                     /\ lyr_next' = lyr_next + 1
                     /\ UNCHANGED <<lyr_pc, lyr_clips, lyr_exc>>
                ELSE IF locals.w = "str"
                THEN /\ locals' = [locals EXCEPT !.dur_chunk = dur_chunk]
                     /\ lyr_pc' = "raised"
                     /\ lyr_exc' = "TypeError"
                     /\ UNCHANGED <<lyr_next, lyr_clips>>
                ELSE /\ locals' = [locals EXCEPT !.dur_chunk = dur_chunk, !.w = "str",
                                       !.words = c.words,
                                       !.word_timings = WordTimings(c.words)]
                     /\ lyr_clips' = Append(lyr_clips,
                            [cue |-> lyr_next - 1, start |-> c.s, duration |-> dur_chunk])
                     /\ lyr_next' = lyr_next + 1
                     /\ UNCHANGED <<lyr_pc, lyr_exc>>
    /\ UNCHANGED <<lyr_mode, lyr_subs, lyr_eval, scroll_t, v_engine, v_prev, preview_t, v_preview>>
    /\ UNCHANGED <<coreVars, chkVars, spectrumVars, sceneVars>>

\* past_mask_wipe / current_mask_wipe of a clip at the time t of the clip:
\* prog = t / dur_chunk and idx, from dur_chunk and word_timings as the loop
\* left them.
KaraokeFrame ==
    /\ lyr_pc = "built"
    /\ lyr_mode = "karaoke"
    /\ \E k \in 1..Len(lyr_clips) : \E t \in 0..(lyr_clips[k].duration - 1) :
            IF locals.dur_chunk = 0
            THEN /\ lyr_eval' = NoEval
                 /\ lyr_exc' = "ZeroDivisionError"
                 /\ lyr_pc' = "raised"
            ELSE LET prog == Rat(t, locals.dur_chunk)
                     idx == WordIndex(locals.word_timings, prog, Len(locals.word_timings))
                 IN  /\ lyr_eval' = [NoEval EXCEPT !.t = t, !.clip = lyr_clips[k].cue,
                                        !.prog = prog, !.dur_used = locals.dur_chunk,
                                        !.idx = idx,
                                        !.past_end = PastLimit(locals.word_timings, idx),
                                        !.cur_start = CurrentStart(locals.word_timings, idx),
                                        !.cur_end = CurrentEnd(locals.word_timings, idx)]
                     /\ UNCHANGED <<lyr_exc, lyr_pc>>
    /\ UNCHANGED <<lyr_mode, lyr_subs, lyr_next, locals, lyr_clips,
                   scroll_t, v_engine, v_prev, preview_t, v_preview>>
    /\ UNCHANGED <<coreVars, chkVars, spectrumVars, sceneVars>>

\* ------------------------------------------------------------------- inputs
\* The lengths of the words of a lyric line.
Texts == {<<2>>, <<1, 2>>, <<1, 1, 1>>}

Cues == [s : 0..MaxTime, e : 0..MaxTime, words : Texts]

\* Cue lists in time order, no cue starting before the one before it ends; a
\* cue may be empty (start = end), as two lines with one timestamp give.
CueLists ==
    {l \in UNION {[1..n -> Cues] : n \in 1..MaxCues} :
        /\ \A i \in 1..Len(l) : l[i].s <= l[i].e
        /\ \A i \in 1..(Len(l) - 1) : l[i].e <= l[i + 1].s}

NoLocals == [i |-> -1, w |-> "int", dur_chunk |-> 0, words |-> <<>>, word_timings |-> <<>>]

IdleLyrics ==
    /\ lyr_mode = "index"
    /\ lyr_subs = <<>>
    /\ lyr_pc = "idle"
    /\ lyr_next = 1
    /\ locals = NoLocals
    /\ lyr_clips = <<>>
    /\ lyr_exc = ""
    /\ lyr_eval = NoEval
    /\ scroll_t = -1
    /\ v_engine = Val(<<0, 1>>)
    /\ v_prev = Val(<<0, 1>>)
    /\ preview_t = -1
    /\ v_preview = Val(<<0, 1>>)

NextLyrics ==
    \/ GetVIdx
    \/ PaintPreview
    \/ ScrollLoop
    \/ ScrollFrame
    \/ KaraokeLoop
    \/ KaraokeFrame

\* ============================================================== frame size
\* ---------------------------------------------------- binary64 float values
\* A positive Python float is [m, e]: the value is m * 2^e, m being the
\* MantBits bits of the significand, the most significant (a 1) first. The
\* operations round to nearest, ties to even, as the hardware does.
MantBits == 53

\* The bits of a natural number, most significant first; <<>> for 0.
RECURSIVE NatBits(_)
NatBits(n) == IF n = 0 THEN <<>> ELSE Append(NatBits(n \div 2), n % 2)

RECURSIVE BitsNat(_)
BitsNat(b) == IF b = <<>> THEN 0 ELSE 2 * BitsNat(SubSeq(b, 1, Len(b) - 1)) + b[Len(b)]

Zeros(n) == [i \in 1..n |-> 0]

\* b + 1 for a bit sequence b, from the last i bits on; all ones give zeros.
RECURSIVE IncBits(_, _)
IncBits(b, i) ==
    IF i = 0 THEN b
    ELSE IF b[i] = 0 THEN [b EXCEPT ![i] = 1]
    ELSE IncBits([b EXCEPT ![i] = 0], i - 1)

\* The float nearest to sig * 2^e_lsb (+ something below the last bit when
\* sticky): sig are the significant bits from the leading 1 on.
FRound(sig, sticky, e_lsb) ==
    IF Len(sig) <= MantBits
    THEN [m |-> sig \o Zeros(MantBits - Len(sig)), e |-> e_lsb - (MantBits - Len(sig))]
    ELSE LET m0 == SubSeq(sig, 1, MantBits)
             e0 == e_lsb + (Len(sig) - MantBits)
             guard == sig[MantBits + 1]
             below == sticky \/ \E i \in (MantBits + 2)..Len(sig) : sig[i] = 1
             up == guard = 1 /\ (below \/ m0[MantBits] = 1)
             m1 == IncBits(m0, MantBits)
         IN  IF ~up THEN [m |-> m0, e |-> e0]
             ELSE IF m1[1] = 1 THEN [m |-> m1, e |-> e0]
             ELSE [m |-> <<1>> \o Zeros(MantBits - 1), e |-> e0 + 1]

\* Long division by an int: the bits after those of sig, until there is one
\* more than the significand holds; f counts the bits after the point.
RECURSIVE DivSmall(_, _, _, _)
DivSmall(r, b, sig, f) ==
    IF Len(sig) > MantBits THEN [sig |-> sig, f |-> f, sticky |-> r # 0]
    ELSE LET bit == IF 2 * r >= b THEN 1 ELSE 0
         IN  DivSmall(2 * r - bit * b, b,
                      IF sig = <<>> /\ bit = 0 THEN sig ELSE Append(sig, bit), f + 1)

\* a / b for two positive ints.
FDivInt(a, b) ==
    LET d == DivSmall(a % b, b, NatBits(a \div b), 0)
    IN  FRound(d.sig, d.sticky, -d.f)

\* The bits of m * n for a bit sequence m and an int n, from bit i down.
RECURSIVE MulBits(_, _, _, _)
MulBits(m, n, i, carry) ==
    IF i = 0 THEN NatBits(carry)
    ELSE LET v == m[i] * n + carry
         IN  IF v % 2 = 0 THEN Append(MulBits(m, n, i - 1, v \div 2), 0)
             ELSE Append(MulBits(m, n, i - 1, v \div 2), 1)

\* n * x for a positive int n and a float x.
FMulInt(n, x) == FRound(MulBits(x.m, n, MantBits, 0), FALSE, x.e)

\* a >= b for two bit sequences of one length.
RECURSIVE GeBits(_, _, _)
GeBits(a, b, i) ==
    IF i > Len(a) THEN TRUE
    ELSE IF a[i] # b[i] THEN a[i] > b[i]
    ELSE GeBits(a, b, i + 1)

\* a - b for two bit sequences of one length, a >= b, from bit i down.
RECURSIVE SubBits(_, _, _, _)
SubBits(a, b, i, borrow) ==
    IF i = 0 THEN <<>>
    ELSE LET v == a[i] - b[i] - borrow
         IN  IF v < 0 THEN Append(SubBits(a, b, i - 1, 1), v + 2)
             ELSE Append(SubBits(a, b, i - 1, 0), v)

\* One step of the long division by a significand d: the next bit of the
\* quotient, none once there is one more than the significand holds. r and
\* d have MantBits + 2 bits; f counts the bits after the point.
DivBigStep(st, d) ==
    IF Len(st.sig) > MantBits THEN st
    ELSE LET r2 == Append(Tail(st.r), 0)
             ge == GeBits(r2, d, 1)
         IN  [r |-> IF ge THEN SubBits(r2, d, Len(d), 0) ELSE r2,
              sig |-> IF st.sig = <<>> /\ ~ge THEN st.sig
                      ELSE Append(st.sig, IF ge THEN 1 ELSE 0),
              f |-> st.f + 1]

\* n steps, split in halves; the first half is complete (its f is known)
\* before the second starts.
RECURSIVE DivBig(_, _, _)
DivBig(st, d, n) ==
    IF n = 1 THEN DivBigStep(st, d)
    ELSE LET half == DivBig(st, d, n \div 2)
         IN  IF half.f > st.f THEN DivBig(half, d, n - (n \div 2)) ELSE half

\* n / x for a positive int n and a float x: the quotient has its leading 1
\* within MantBits + 2 steps and its last bit MantBits steps later.
FDivByFloat(n, x) ==
    LET width == MantBits + 2
        r == Zeros(width - Len(NatBits(n))) \o NatBits(n)
        q == DivBig([r |-> r, sig |-> <<>>, f |-> 0], <<0, 0>> \o x.m, 2 * width)
    IN  FRound(q.sig, q.r # Zeros(width), (-q.f) - x.e)

\* x > y and x >= y for two floats.
FGt(x, y) == x.e > y.e \/ (x.e = y.e /\ x.m # y.m /\ GeBits(x.m, y.m, 1))

FGe(x, y) == x = y \/ FGt(x, y)

\* int(x) for a positive float below 2^31.
FInt(x) ==
    IF x.e >= 0 THEN BitsNat(x.m \o Zeros(x.e))
    ELSE IF MantBits + x.e <= 0 THEN 0
    ELSE BitsNat(SubSeq(x.m, 1, MantBits + x.e))

\* ----------------------------------------------------------- resolution map
base_res_map(tier) ==
    CASE tier = "720p" -> 720
      [] tier = "1080p" -> 1080
      [] tier = "2K" -> 1440
      [] tier = "4K" -> 2160
      [] OTHER -> 1080

\* Variant: w and h stay as int() left them.
MakeEvenNot(n) == n

\* if w % 2 != 0: w += 1
MakeEven(n) == IF n % 2 # 0 THEN n + 1 ELSE n

\* w and h from config['res'] and config['aspect_ratio'].
StepResolution ==
    /\ fpc = "resolution"
    /\ LET base_h == base_res_map(res)
           ratio == FDivInt(aspect_ratio[1], aspect_ratio[2])
           wide == FGe(ratio, FDivInt(1, 1))
           w == IF wide THEN FInt(FMulInt(base_h, ratio)) ELSE base_h
           h == IF wide THEN base_h ELSE FInt(FDivByFloat(base_h, ratio))
       IN  /\ frame_raw' = <<w, h>>
           /\ frame_size' = <<MakeEven(w), MakeEven(h)>>
    /\ fpc' = "crop"
    /\ UNCHANGED <<res, aspect_ratio, bg_size, crop, out_size>>
    /\ UNCHANGED <<coreVars, chkVars, spectrumVars, lyricVars, playVars>>

\* ------------------------------------------------------------- crop to fill
NoCrop == [axis |-> "", x1 |-> 0, y1 |-> 0, width |-> 0, height |-> 0]

\* Crop to Fill Logic: the rectangle bg.crop keeps, x1 and width given for a
\* source wider than the frame, y1 and height otherwise.
CropToFill(bg_w, bg_h, w, h) ==
    LET bg_ratio == FDivInt(bg_w, bg_h)
        target_ratio == FDivInt(w, h)
        new_w == FInt(FMulInt(bg_h, target_ratio))
        new_h == FInt(FDivByFloat(bg_w, target_ratio))
    IN  IF FGt(bg_ratio, target_ratio)
        THEN [axis |-> "x", x1 |-> (bg_w - new_w) \div 2, y1 |-> 0,
              width |-> new_w, height |-> bg_h]
        ELSE [axis |-> "y", x1 |-> 0, y1 |-> (bg_h - new_h) \div 2,
              width |-> bg_w, height |-> new_h]

StepCrop ==
    /\ fpc = "crop"
    /\ crop' = CropToFill(bg_size[1], bg_size[2], frame_size[1], frame_size[2])
    /\ fpc' = "resize"
    /\ UNCHANGED <<res, aspect_ratio, bg_size, frame_raw, frame_size, out_size>>
    /\ UNCHANGED <<coreVars, chkVars, spectrumVars, lyricVars, playVars>>

\* bg.resize(newsize=(w, h)): the frame of the cropped clip is scaled to the
\* frame size; a crop that keeps no pixel leaves nothing to scale and the
\* resizer raises.
StepResize ==
    /\ fpc = "resize"
    /\ IF crop.width > 0 /\ crop.height > 0
       THEN /\ out_size' = frame_size
            /\ fpc' = "done"
       ELSE /\ out_size' = <<crop.width, crop.height>>
            /\ fpc' = "raised"
    /\ UNCHANGED <<res, aspect_ratio, bg_size, frame_raw, frame_size, crop>>
    /\ UNCHANGED <<coreVars, chkVars, spectrumVars, lyricVars, playVars>>

\* ------------------------------------------------------------------- inputs
\* The tiers of res_box and a name base_res_map does not know.
Tiers == {"720p", "1080p", "2K", "4K", "8K"}

\* Aspect ratios ar_w:ar_h as the engine reads them from the configuration.
AspectRatios == {<<16, 9>>, <<9, 16>>, <<1, 1>>, <<4, 3>>, <<21, 9>>, <<11, 8>>, <<7, 11>>}

\* Sizes of background media.
SourceSizes == {<<1920, 1080>>, <<1280, 720>>, <<35, 15>>, <<2520, 1080>>, <<1080, 1920>>,
                <<4000, 3000>>, <<640, 640>>, <<1, 3>>}

IdleFrame ==
    /\ res = "1080p"
    /\ aspect_ratio = <<16, 9>>
    /\ bg_size = <<0, 0>>
    /\ frame_raw = <<0, 0>>
    /\ frame_size = <<0, 0>>
    /\ crop = NoCrop
    /\ out_size = <<0, 0>>
    /\ fpc = "idle"

NextFrame ==
    \/ StepResolution
    \/ StepCrop
    \/ StepResize

\* ================================================================== preview
\* ------------------------------------------------------------ the playlist
\* Variant: the song taken from the head of the queue is not put back.
RotateDrop(q) == Tail(q)

\* song = self.audio_queue.pop(0) ... self.audio_queue.append(song)
Rotate(q) == Append(Tail(q), Head(q))

\* list.index(x), counted from 0; -1 for the ValueError sync_lyrics_to_song
\* catches.
IndexOf(l, x) ==
    IF \E i \in 1..Len(l) : l[i] = x
    THEN (CHOOSE i \in 1..Len(l) : l[i] = x /\ \A j \in 1..(i - 1) : l[j] # x) - 1
    ELSE -1

\* parse_lyrics, second loop: the cues of the time-tagged lines of a file,
\* a line without text giving none, the end of a cue being the time of the
\* next line or ten seconds after its own.
RECURSIVE PreviewCuesFrom(_, _)
PreviewCuesFrom(tags, i) ==
    IF i > Len(tags) THEN <<>>
    ELSE LET e == IF i < Len(tags) THEN tags[i + 1].sec ELSE tags[i].sec + TailSeconds
             rest == PreviewCuesFrom(tags, i + 1)
         IN  IF tags[i].content = "" THEN rest
             ELSE <<Cue(tags[i].sec, e, tags[i].content)>> \o rest

parse_lyrics(tags) == PreviewCuesFrom(tags, 1)

\* sync_lyrics_to_song: the lyrics file at the song's index in the audio
\* list as it is now; <<>> when the list has no such song or file.
MatchedLyrics(song) ==
    LET idx == IndexOf(audio_paths, song)
    IN  IF idx # -1 /\ idx < Len(lyrics_paths) THEN lyrics_paths[idx + 1] ELSE <<>>

\* The playing time of a song in seconds.
SongSeconds(song) == IF song = "a" THEN 2 ELSE 1

spectrum_fps == 30

\* SpectrumWorker.run: np.array(bar_heights_list).shape[1], the frames of
\* the short-time Fourier transform of the song.
SpectrumFrames(song) == SongSeconds(song) * spectrum_fps + 1

NoSong == ""

NoData == "None"

NoHeights == [of |-> {}, frame |-> -1]

NoLookup == [t |-> -1, cues |-> <<>>, text |-> "", progress |-> <<0, 1>>]

\* play_next_song with the queue q; hist is the list of the songs started
\* in this preview so far. Nothing happens for an empty queue.
play_next_song(q, hist) ==
    IF q = <<>>
    THEN /\ audio_queue' = q
         /\ played' = hist
         /\ UNCHANGED <<music, plays, parsed_lyrics, lyrics_text, spectrum_data, workers,
                        timer_on>>
    ELSE LET song == Head(q)
             cues == parse_lyrics(MatchedLyrics(song))
         IN  /\ audio_queue' = Rotate(q)
             /\ music' = [source |-> song, state |-> "playing"]
             /\ played' = Append(hist, song)
             /\ plays' = plays + 1
             /\ parsed_lyrics' = cues
             /\ lyrics_text' = IF MatchedLyrics(song) = <<>> THEN ""
                               ELSE IF cues # <<>> THEN cues[1].t ELSE lyrics_text
             /\ spectrum_data' = NoData
             /\ workers' = Append(workers, song)
             /\ timer_on' = TRUE

\* toggle_preview while no preview runs: start_preview.
StartPreview ==
    /\ ~is_playing
    /\ audio_paths # <<>> => plays < MaxPlays
    /\ session_list' = audio_paths
    /\ play_next_song(audio_paths, <<>>)
    /\ is_playing' = TRUE
    /\ UNCHANGED <<audio_paths, lyrics_paths, posted, lookup, lyrics_progress, live_heights,
                   current_smooth_heights, live_progress>>
    /\ UNCHANGED <<coreVars, chkVars, spectrumVars, lyricVars, frameVars>>

\* toggle_preview while the preview runs: stop_preview. The queue, the
\* spectrum data and the SpectrumWorkers stay as they are.
StopPreview ==
    /\ is_playing
    /\ timer_on' = FALSE
    /\ music' = [music EXCEPT !.state = "stopped"]
    /\ is_playing' = FALSE
    /\ lyrics_text' = "Lyrics Preview Line"
    /\ live_heights' = NoHeights
    /\ live_progress' = <<0, 1>>
    /\ current_smooth_heights' = {}
    /\ lyrics_progress' = <<0, 1>>
    /\ UNCHANGED <<audio_paths, lyrics_paths, audio_queue, session_list, played, plays,
                   spectrum_data, workers, posted, parsed_lyrics, lookup>>
    /\ UNCHANGED <<coreVars, chkVars, spectrumVars, lyricVars, frameVars>>

\* handle_music_status(QMediaPlayer.EndOfMedia): the song has played to its
\* end.
EndOfMedia ==
    /\ music.state = "playing"
    /\ plays < MaxPlays
    /\ play_next_song(audio_queue, played)
    /\ UNCHANGED <<audio_paths, lyrics_paths, session_list, is_playing, posted, lookup,
                   lyrics_progress, live_heights, current_smooth_heights, live_progress>>
    /\ UNCHANGED <<coreVars, chkVars, spectrumVars, lyricVars, frameVars>>

Remove(l, i) == [j \in 1..(Len(l) - 1) |-> IF j < i THEN l[j] ELSE l[j + 1]]

\* SpectrumWorker.run of one of the running workers ends: the analysis of its
\* song, or None when librosa failed, is emitted; the connection to the GUI
\* thread is queued.
WorkerFinished ==
    /\ \E i \in 1..Len(workers) : \E ok \in BOOLEAN :
            /\ posted' = Append(posted, IF ok THEN workers[i] ELSE NoData)
            /\ workers' = Remove(workers, i)
    /\ UNCHANGED <<audio_paths, lyrics_paths, audio_queue, session_list, played, plays,
                   is_playing, music, timer_on, spectrum_data, parsed_lyrics, lookup,
                   lyrics_text, lyrics_progress, live_heights, current_smooth_heights,
                   live_progress>>
    /\ UNCHANGED <<coreVars, chkVars, spectrumVars, lyricVars, frameVars>>

\* on_spectrum_ready(data), for the oldest result in the event queue.
on_spectrum_ready ==
    /\ posted # <<>>
    /\ spectrum_data' = Head(posted)
    /\ posted' = Tail(posted)
    /\ UNCHANGED <<audio_paths, lyrics_paths, audio_queue, session_list, played, plays,
                   is_playing, music, timer_on, workers, parsed_lyrics, lookup,
                   lyrics_text, lyrics_progress, live_heights, current_smooth_heights,
                   live_progress>>
    /\ UNCHANGED <<coreVars, chkVars, spectrumVars, lyricVars, frameVars>>

\* ------------------------------------------------------- the playback loop
\* for (start, end), text in self.parsed_lyrics: the first cue with
\* start <= current_sec <= end gives the text and the progress.
RECURSIVE CueAtFrom(_, _, _)
CueAtFrom(cues, i, t) ==
    IF i > Len(cues) THEN [text |-> "", progress |-> <<0, 1>>]
    ELSE IF cues[i].s <= t /\ t <= cues[i].e
         THEN [text |-> cues[i].t,
               progress |-> IF cues[i].e > cues[i].s
                            THEN Rat(t - cues[i].s, cues[i].e - cues[i].s)
                            ELSE <<1, 1>>]
         ELSE CueAtFrom(cues, i + 1, t)

\* update_playback_loop, the slot of preview_timer, with the player at
\* second pos of its song and the smoothness slider at 0 or above it. The
\* blend of the smoothed heights is kept as the set of the songs whose
\* analysis went into it.
update_playback_loop ==
    /\ timer_on
    /\ \E pos \in 0..SongSeconds(music.source) : \E smoothness \in {0, 50} :
        IF ~is_playing
        THEN UNCHANGED <<live_progress, lookup, lyrics_text, lyrics_progress, live_heights,
                         current_smooth_heights>>
        ELSE /\ live_progress' = Rat(pos, SongSeconds(music.source))
             /\ IF lyrics_paths # <<>> /\ parsed_lyrics # <<>>
                THEN LET c == CueAtFrom(parsed_lyrics, 1, pos)
                     IN  /\ lyrics_text' = c.text
                         /\ lyrics_progress' = c.progress
                         /\ lookup' = [t |-> pos, cues |-> parsed_lyrics, text |-> c.text,
                                       progress |-> c.progress]
                ELSE UNCHANGED <<lookup, lyrics_text, lyrics_progress>>
             /\ LET frame == pos * spectrum_fps
                IN  IF spectrum_data # NoData /\ frame < SpectrumFrames(spectrum_data)
                    THEN IF smoothness > 0
                         THEN /\ current_smooth_heights' =
                                        current_smooth_heights \cup {spectrum_data}
                              /\ live_heights' =
                                        [of |-> current_smooth_heights \cup {spectrum_data},
                                         frame |-> frame]
                         ELSE /\ current_smooth_heights' = {}
                              /\ live_heights' = [of |-> {spectrum_data}, frame |-> frame]
                    ELSE UNCHANGED <<live_heights, current_smooth_heights>>
    /\ UNCHANGED <<audio_paths, lyrics_paths, audio_queue, session_list, played, plays,
                   is_playing, music, timer_on, spectrum_data, workers, posted,
                   parsed_lyrics>>
    /\ UNCHANGED <<coreVars, chkVars, spectrumVars, lyricVars, frameVars>>

\* ---------------------------------------------------------- the audio list
Songs == {"a", "b"}

\* ControlPanel.add_audio_path: a path the list holds is not added again.
add_audio_path ==
    /\ \E path \in Songs :
            audio_paths' = IF \E i \in 1..Len(audio_paths) : audio_paths[i] = path
                           THEN audio_paths ELSE Append(audio_paths, path)
    /\ UNCHANGED <<lyrics_paths, audio_queue, session_list, played, plays, is_playing, music,
                   timer_on, spectrum_data, workers, posted, parsed_lyrics, lookup,
                   lyrics_text, lyrics_progress, live_heights, current_smooth_heights,
                   live_progress>>
    /\ UNCHANGED <<coreVars, chkVars, spectrumVars, lyricVars, frameVars>>

\* ------------------------------------------------------------------- inputs
Tag(sec, content) == [sec |-> sec, content |-> content]

\* The time-tagged lines of three .lrc files: two lines that follow each
\* other, two lines with one timestamp, and a line without text before the
\* first line with text.
FollowingLines == <<Tag(0, "l1"), Tag(1, "l2")>>

SameTimeLines == <<Tag(1, "l1"), Tag(1, "l2"), Tag(2, "")>>

LateLine == <<Tag(0, ""), Tag(1, "l1")>>

\* The lyrics list: no file, one file, or one for each of two songs.
LyricLists == {<<>>, <<SameTimeLines>>, <<FollowingLines, LateLine>>}

IdlePreview ==
    /\ audio_paths = <<>>
    /\ lyrics_paths = <<>>
    /\ audio_queue = <<>>
    /\ session_list = <<>>
    /\ played = <<>>
    /\ plays = 0
    /\ is_playing = FALSE
    /\ music = [source |-> NoSong, state |-> "stopped"]
    /\ timer_on = FALSE
    /\ spectrum_data = NoData
    /\ workers = <<>>
    /\ posted = <<>>
    /\ parsed_lyrics = <<>>
    /\ lookup = NoLookup
    /\ lyrics_text = "Lyrics Preview Line"
    /\ lyrics_progress = <<0, 1>>
    /\ live_heights = NoHeights
    /\ current_smooth_heights = {}
    /\ live_progress = <<0, 1>>

NextPreview ==
    \/ StartPreview
    \/ StopPreview
    \/ EndOfMedia
    \/ WorkerFinished
    \/ on_spectrum_ready
    \/ update_playback_loop
    \/ add_audio_path

\* ------------------------------------------------------------------- Spec
InitJob ==
    /\ render_btn = TRUE
    /\ cancel_btn = FALSE
    /\ status = ""
    /\ pbar = 0
    /\ nWorkers = 0
    /\ queue = <<>>
    /\ wpc = [w \in Jobs |-> "none"]
    /\ interrupt = [w \in Jobs |-> FALSE]
    /\ frames = [w \in Jobs |-> 0]
    /\ barTotal = [w \in Jobs |-> 0]
    /\ cbNext = [w \in Jobs |-> -2]
    /\ emitted = [w \in Jobs |-> <<>>]
    /\ term = [w \in Jobs |-> <<>>]
    /\ raised = [w \in Jobs |-> <<>>]
    /\ observed = [w \in Jobs |-> FALSE]
    /\ obsLen = [w \in Jobs |-> 0]
    /\ reqAt = [w \in Jobs |-> -1]
    /\ cbDone = [w \in Jobs |-> 0]
    /\ outcome = [w \in Jobs |-> "none"]

\* The other specifications leave the added variables as __init__ sets them.
IdleScene == IdleFrame /\ IdlePreview

IdleExt == InitGui /\ IdleSpectrum /\ IdleLyrics /\ IdleScene

Init == InitJob /\ IdleLayers /\ IdleLrc /\ IdleExt

Next ==
    \/ StartTask
    \/ CancelRender
    \/ DeliverSignal
    \/ \E w \in Jobs : WorkerPrepare(w)
    \/ \E w \in Jobs : WorkerPrepareFail(w)
    \/ \E w \in Jobs : BarsCallback(w)
    \/ \E w \in Jobs : EncodeFail(w)
    \/ \E w \in Jobs : RunRenderReturns(w)

Spec == Init /\ [][Next]_vars

\* run_render is entered with any configuration; the job variables stay idle.
InitLayers ==
    /\ config \in Configs
    /\ clips = <<>>
    /\ subs = 0
    /\ rpc = "background"
    /\ InitJob
    /\ IdleLrc
    /\ IdleExt

SpecLayers == InitLayers /\ [][NextLayers]_vars

\* A parser is entered with any file and duration.
InitLrc ==
    /\ lrcParser \in {"engine", "gui"}
    /\ lrcLines \in LrcFiles
    /\ lrcDur \in LrcDurations
    /\ lrcPc = "lines"
    /\ lrcI = 1
    /\ parsed = <<>>
    /\ lrcSubs = <<>>
    /\ lrcFailed = FALSE
    /\ InitJob
    /\ IdleLayers
    /\ IdleExt

SpecLrc == InitLrc /\ [][NextLrc]_vars

\* The window as constructed; no job, no render.
InitGuiSpec ==
    /\ InitGui
    /\ InitJob
    /\ IdleLayers
    /\ IdleLrc
    /\ IdleSpectrum
    /\ IdleLyrics
    /\ IdleScene

SpecGui == InitGuiSpec /\ [][NextGui]_vars

\* The spectrum block is entered with any options and spectrogram.
InitSpectrum ==
    /\ spectrum_cfg \in SpectrumConfigs
    /\ stft \in Spectrograms
    /\ bar_heights = <<>>
    /\ smoothed = <<>>
    /\ heights = <<>>
    /\ spc = "sensitivity"
    /\ spec_cache = <<>>
    /\ requested = 0
    /\ specResult = NoResult
    /\ InitJob
    /\ IdleLayers
    /\ IdleLrc
    /\ InitGui
    /\ IdleLyrics
    /\ IdleScene

SpecSpectrum == InitSpectrum /\ [][NextSpectrum]_vars

\* The lyrics block is entered in scrolling or karaoke mode with any cue
\* list, or the virtual index is followed over the render.
InitLyrics ==
    /\ lyr_mode \in {"scrolling", "karaoke", "index"}
    /\ lyr_subs \in CueLists
    /\ lyr_mode # "karaoke" => \A i \in 1..Len(lyr_subs) : lyr_subs[i].words = <<2>>
    /\ lyr_pc = IF lyr_mode = "scrolling" THEN "scroll_loop"
                ELSE IF lyr_mode = "karaoke" THEN "karaoke_loop" ELSE "index"
    /\ lyr_next = 1
    /\ locals = NoLocals
    /\ lyr_clips = <<>>
    /\ lyr_exc = ""
    /\ lyr_eval = NoEval
    /\ scroll_t = -1
    /\ v_engine = Val(<<0, 1>>)
    /\ v_prev = Val(<<0, 1>>)
    /\ preview_t = -1
    /\ v_preview = Val(<<0, 1>>)
    /\ InitJob
    /\ IdleLayers
    /\ IdleLrc
    /\ InitGui
    /\ IdleSpectrum
    /\ IdleScene

SpecLyrics == InitLyrics /\ [][NextLyrics]_vars

\* run_render is entered with any tier, aspect ratio and background.
InitFrame ==
    /\ res \in Tiers
    /\ aspect_ratio \in AspectRatios
    /\ bg_size \in SourceSizes
    /\ frame_raw = <<0, 0>>
    /\ frame_size = <<0, 0>>
    /\ crop = NoCrop
    /\ out_size = <<0, 0>>
    /\ fpc = "resolution"
    /\ InitJob
    /\ IdleLayers
    /\ IdleLrc
    /\ InitGui
    /\ IdleSpectrum
    /\ IdleLyrics
    /\ IdlePreview

SpecFrame == InitFrame /\ [][NextFrame]_vars

\* The window is up, with any lyrics list and an empty audio list.
InitPreview ==
    /\ audio_paths = <<>>
    /\ lyrics_paths \in LyricLists
    /\ audio_queue = <<>>
    /\ session_list = <<>>
    /\ played = <<>>
    /\ plays = 0
    /\ is_playing = FALSE
    /\ music = [source |-> NoSong, state |-> "stopped"]
    /\ timer_on = FALSE
    /\ spectrum_data = NoData
    /\ workers = <<>>
    /\ posted = <<>>
    /\ parsed_lyrics = <<>>
    /\ lookup = NoLookup
    /\ lyrics_text = "Lyrics Preview Line"
    /\ lyrics_progress = <<0, 1>>
    /\ live_heights = NoHeights
    /\ current_smooth_heights = {}
    /\ live_progress = <<0, 1>>
    /\ InitJob
    /\ IdleLayers
    /\ IdleLrc
    /\ InitGui
    /\ IdleSpectrum
    /\ IdleLyrics
    /\ IdleFrame

SpecPreview == InitPreview /\ [][NextPreview]_vars

\* ------------------------------------------------------- properties of Spec
Active == {w \in Jobs : wpc[w] \in {"preparing", "rendering"}}

Queued(sig) == \E i \in 1..Len(queue) : queue[i] = sig

\* C1: once a bars_callback has found cancel_check() true, nothing was passed
\* to the progress callback at or after that callback, the Worker has ended
\* with the error signal "Render Cancelled" and with no success signal, and
\* the GUI classifies the job as cancelled (the signal is still queued, or
\* handle_error has shown 'Render Cancelled'), never as failed or complete.
C1_CancelObserved ==
    \A w \in Jobs : observed[w] =>
        /\ Len(emitted[w]) = obsLen[w]
        /\ wpc[w] = "finished"
        /\ term[w] = <<Signal(w, "error", CancelMsg)>>
        /\ IF Queued(Signal(w, "error", CancelMsg))
           THEN outcome[w] = "none"
           ELSE outcome[w] = "Cancelled"

\* A job cancelled in mid-stream, after it reported progress, and classified.
C1_Witness ==
    \E w \in Jobs :
        observed[w] /\ Len(emitted[w]) >= 2 /\ outcome[w] = "Cancelled"

C3_OneJobAtATime ==
    /\ Cardinality(Active) <= 1
    /\ render_btn => Active = {}

\* A second job runs after the first one has ended.
C3_Witness ==
    nWorkers = 2 /\ wpc[2] = "rendering" /\ wpc[1] \in {"finished", "released"}

\* C4: the values passed to the progress callback during one job are
\* integers in 0..100 and never decrease.
C4_ProgressMonotone ==
    \A w \in Jobs : \A i \in 1..Len(emitted[w]) :
        /\ emitted[w][i] \in 0..100
        /\ i > 1 => emitted[w][i - 1] <= emitted[w][i]

\* C5: a Worker that is running has emitted no terminal signal; one that has
\* ended has emitted exactly one: success when run_render returned, and the
\* error signal carrying the message of the exception when it raised.
C5_OneTerminalSignal ==
    \A w \in Jobs :
        /\ wpc[w] \in {"none", "preparing", "rendering"} => term[w] = <<>>
        /\ wpc[w] = "finished" =>
                term[w] = IF raised[w] = <<>> THEN <<Signal(w, "success", <<>>)>>
                          ELSE <<Signal(w, "error", raised[w])>>

\* One job ended by an encoder failure and shown as failed, another by a
\* failure while preparing.
C5_Witness ==
    \E w \in Jobs :
        /\ wpc[w] = "finished" /\ raised[w] = EncodeMsg /\ outcome[w] = "Failed"
        /\ Len(emitted[w]) >= 1

\* ------------------------------------------------- properties of SpecLayers
Positions(x) == {i \in 1..Len(clips) : clips[i] = x}

\* run_render has raised: the exception leaves the function and no list
\* reaches the compositor.
Raised == rpc \in {"raised_spectrum", "raised_logo", "raised_karaoke", "raised_scrolling"}

\* C6: in the list handed to the compositor the title text is above every
\* lyrics text layer.
C6_TitleAboveLyrics ==
    rpc = "done" =>
        \A i \in Positions("title") : \A j \in Positions("lyrics") : j < i

\* C7: the dim layer, when present, is directly above the background; the
\* lyrics background box, when present, is directly above the dim layer, or
\* directly above the background when there is no dim layer; so both are
\* below the spectrum, logo, progress bar and text layers.
C7_DimBoxAboveBackground ==
    rpc = "done" =>
        /\ clips[1] = "bg"
        /\ Positions("dim") \subseteq {2}
        /\ Positions("box") \subseteq {IF Positions("dim") = {} THEN 2 ELSE 3}

\* C11: a logo path or a lyrics path that names no file does not make
\* run_render fail: the list reaches the compositor without the logo, and
\* without any lyrics layer (text, box or dim).
C11_MissingFileSkipped ==
    /\ config.logo = "missing" => rpc # "raised_logo"
    /\ rpc = "done" =>
            /\ config.logo = "missing" => Positions("logo") = {}
            /\ config.lyrics_file = "missing" =>
                    Positions("lyrics") \cup Positions("box") \cup Positions("dim") = {}

\* C12: with a lyrics file that gives no cue the list handed to the
\* compositor holds no lyrics layer: no text, no box and no dim layer.
C12_NoCuesNoLyricsLayers ==
    (rpc = "done" /\ LyricsFilePresent /\ subs = 0) =>
        Positions("lyrics") \cup Positions("box") \cup Positions("dim") = {}

\* ---------------------------------------------------- properties of SpecLrc
\* C8: the cue list a parser produces is sorted by start time, every cue has
\* start < end, no two cues overlap, and every cue but the last ends where
\* the next one starts.
C8_CuesSortedContiguous ==
    lrcPc = "done" =>
        /\ \A i \in 1..Len(lrcSubs) : lrcSubs[i].s < lrcSubs[i].e
        /\ \A i \in 1..(Len(lrcSubs) - 1) :
                /\ lrcSubs[i].s <= lrcSubs[i + 1].s
                /\ lrcSubs[i].e = lrcSubs[i + 1].s

\* C9: every cue ends at or before the render duration and starts before
\* it, and when the last timestamp line of the file gives the last cue, that
\* cue ends at min(start + 10 s, render duration).
C9_LastCueTail ==
    lrcPc = "done" =>
        /\ \A i \in 1..Len(lrcSubs) : lrcSubs[i].e <= lrcDur /\ lrcSubs[i].s < lrcDur
        /\ (/\ ~lrcFailed
            /\ parsed # <<>>
            /\ parsed[Len(parsed)].content # ""
            /\ parsed[Len(parsed)].sec < lrcDur)
           => /\ lrcSubs # <<>>
              /\ lrcSubs[Len(lrcSubs)].s = parsed[Len(parsed)].sec
              /\ lrcSubs[Len(lrcSubs)].e = Min(parsed[Len(parsed)].sec + TailSeconds, lrcDur)

\* C10: the cue list of run_render holds a cue for every well-formed lyric
\* line with text that starts before the render duration, whatever
\* malformed lines the file also holds.
C10_MalformedLineSkipped ==
    (lrcPc = "done" /\ lrcParser = "engine") =>
        \A k \in 1..Len(lrcLines) :
            (/\ IsTimeTag(lrcLines[k])
             /\ ~RaisesValueError(lrcLines[k].parts)
             /\ lrcLines[k].content # ""
             /\ Seconds(lrcLines[k].parts) < lrcDur)
            => \E i \in 1..Len(lrcSubs) :
                    /\ lrcSubs[i].s = Seconds(lrcLines[k].parts)
                    /\ lrcSubs[i].t = lrcLines[k].content

Smoothed == spc \in {"scale", "frames", "raised"}

\* C14 as claimed: with smoothness in (0, 100] the smoothed heights start at
\* the first raw height and no step of theirs is larger than the step of the
\* raw heights at the same frame; with smoothness 0 they are the raw heights.
C14_SmoothedStepWithinRawStep ==
    Smoothed =>
        IF spectrum_cfg.spectrum_smoothness = 0 THEN smoothed = bar_heights
        ELSE /\ smoothed[1] = bar_heights[1]
             /\ \A t \in 2..Len(smoothed) :
                    RLe(RAbs(RSub(smoothed[t], smoothed[t - 1])),
                        RAbs(RSub(bar_heights[t], bar_heights[t - 1])))

\* C14 as amended: with smoothness in (0, 100] the smoothed heights start at
\* the first raw height and each later one lies between the smoothed height
\* before it and the raw height of its frame, the share alpha of the way;
\* with smoothness 0 they are the raw heights.
C14_SmoothedStepTowardsRaw ==
    Smoothed =>
        IF spectrum_cfg.spectrum_smoothness = 0 THEN smoothed = bar_heights
        ELSE /\ Len(smoothed) = Len(bar_heights)
             /\ smoothed[1] = bar_heights[1]
             /\ \A t \in 2..Len(smoothed) :
                    /\ RLe(RAbs(RSub(smoothed[t], smoothed[t - 1])),
                           RAbs(RSub(bar_heights[t], smoothed[t - 1])))
                    /\ RSub(smoothed[t], smoothed[t - 1])
                            = RMul(alpha, RSub(bar_heights[t], smoothed[t - 1]))

\* Smoothing at 50% over three frames whose raw heights rise and then stay:
\* the smoothed heights still rise at the last frame.
C14_Witness ==
    /\ Smoothed
    /\ spectrum_cfg.spectrum_smoothness = 50
    /\ Len(smoothed) = 3
    /\ bar_heights[2] = bar_heights[3]
    /\ ~RLe(smoothed[3], smoothed[2])

\* The spectrogram has the same magnitude at every frame.
ConstantSpectrogram == \A t \in DOMAIN stft : stft[t] = stft[1]

\* make_frame was called.
FrameAsked == specResult.kind # "none"

\* C15: for a spectrogram that is zero everywhere every call of the frame
\* function, in each of the seven styles, returns a frame (it does not
\* raise) with an alpha channel on which nothing is drawn.
C15_SilentFrameTransparent ==
    ((\A t \in DOMAIN stft : stft[t] = 0) /\ FrameAsked) =>
        /\ specResult.kind = "frame"
        /\ specResult.channels = 4
        /\ ~specResult.drawn

\* C16: with smoothness 0, a constant spectrogram, style Bars and position
\* Bottom the height of the table is clip(raw * sensitivity/100 * scale, 0,
\* h/2) with scale = 6 * size/50 at every frame, at most half the frame
\* height, and every frame asked for is returned with its bars drawn.
C16_BarsHeight ==
    (/\ spectrum_cfg.spectrum_style = "Bars"
     /\ spectrum_cfg.spectrum_pos = "Bottom"
     /\ spectrum_cfg.spectrum_smoothness = 0
     /\ ConstantSpectrogram
     /\ spc \in {"frames", "raised"})
    => /\ \A t \in DOMAIN heights :
            /\ heights[t] =
                    RClip(RMul(RMul(<<stft[1], 1>>, Rat(spectrum_cfg.spectrum_sensitivity, 100)),
                               RMul(<<6, 1>>, Rat(spectrum_cfg.spectrum_size, 50))),
                          0, FrameH \div 2)
            /\ RLe(heights[t], <<FrameH \div 2, 1>>)
       /\ FrameAsked => (specResult.kind = "frame" /\ specResult.drawn)

PositiveCues == \A i \in 1..Len(lyr_subs) : lyr_subs[i].s < lyr_subs[i].e

\* The cues, counted from 0, that hold the time t, and those that start
\* after it.
CuesHolding(t) == {i \in 0..(Len(lyr_subs) - 1) : lyr_subs[i + 1].s <= t /\ t <= lyr_subs[i + 1].e}

CuesAhead(t) == {i \in 0..(Len(lyr_subs) - 1) : t < lyr_subs[i + 1].s}

Least(S) == CHOOSE i \in S : \A j \in S : i <= j

\* v at the time t is the cue's index plus the elapsed share of the cue inside
\* a cue, and the index of the next cue in a gap.
IndexAsStated(r, t) ==
    IF CuesHolding(t) # {}
    THEN LET i == Least(CuesHolding(t))
         IN  r = Val(RAdd(<<i, 1>>, Rat(t - lyr_subs[i + 1].s,
                                        lyr_subs[i + 1].e - lyr_subs[i + 1].s)))
    ELSE CuesAhead(t) # {} => r = Val(<<Least(CuesAhead(t)), 1>>)

\* C18: for sorted cues that do not overlap, the virtual index of the engine
\* and of the preview is i + (t - start_i)/(end_i - start_i) inside cue i and
\* the index of the next cue in every gap, the one before the first cue
\* included, and it never decreases from one second to the next.
C18_VirtualIndex ==
    (lyr_mode = "index" /\ PositiveCues) =>
        /\ scroll_t >= 0 => IndexAsStated(v_engine, scroll_t)
        /\ scroll_t >= 1 => RLe(v_prev.v, v_engine.v)
        /\ preview_t >= 0 => IndexAsStated(v_preview, preview_t)

\* C19: with two or more cues in scrolling mode the clips are built, and a
\* clip asked for a frame is placed and faded by its own cue index k: at
\* (k - v(t)) * line_spacing from the anchor, with opacity max(0, 1 - |k - v(t)|).
C19_ScrollClipOwnIndex ==
    (lyr_mode = "scrolling" /\ Len(lyr_subs) >= 2 /\ PositiveCues) =>
        /\ lyr_pc # "raised"
        /\ lyr_eval.clip >= 0 =>
              /\ lyr_eval.index_used = lyr_eval.clip
              /\ lyr_eval.opacity = Opacity(lyr_eval.clip, lyr_eval.v)
              /\ lyr_eval.y = RInt(RAdd(<<lyrics_cy, 1>>,
                     RMul(RSub(<<lyr_eval.clip, 1>>, lyr_eval.v), <<line_spacing, 1>>)))

\* The cues of positive duration, in order, counted from 0.
PositiveIndices == SelectSeq([i \in 1..Len(lyr_subs) |-> i - 1],
                             LAMBDA i : lyr_subs[i + 1].s < lyr_subs[i + 1].e)

\* C20: in karaoke mode the build of the clips never fails; it gives one clip
\* per cue of positive duration, starting at the cue's start and lasting its
\* duration, and a frame of a clip takes its progress and its current word
\* from that cue's own duration and word shares.
C20_KaraokeClipPerCue ==
    lyr_mode = "karaoke" =>
        /\ lyr_exc = ""
        /\ lyr_pc = "built" =>
              lyr_clips = [j \in 1..Len(PositiveIndices) |->
                  LET c == lyr_subs[PositiveIndices[j] + 1]
                  IN  [cue |-> PositiveIndices[j], start |-> c.s, duration |-> c.e - c.s]]
        /\ lyr_eval.clip >= 0 =>
              LET c == lyr_subs[lyr_eval.clip + 1]
                  own == WordTimings(c.words)
              IN  /\ lyr_eval.dur_used = c.e - c.s
                  /\ lyr_eval.idx = WordIndex(own, Rat(lyr_eval.t, c.e - c.s), Len(own))

RLt(a, b) == RLe(a, b) /\ a # b

\* C21: the word shares of a cue start at 0, follow one another without a
\* gap and end at 1, each as long as (len(word) + 1) over the sum of
\* len(word) + 1; at a progress below 1 the current word is the one word
\* whose share holds the progress, the past wipe keeps exactly the shares of
\* the words before it and the current wipe exactly its share.
C21_WordSharesPartition ==
    LET wt == locals.word_timings
        n == Len(wt)
        total == Weight(locals.words, Len(locals.words))
    IN  (lyr_mode = "karaoke" /\ n > 0) =>
            /\ n = Len(locals.words)
            /\ wt[1][1] = <<0, 1>>
            /\ wt[n][2] = <<1, 1>>
            /\ \A j \in 1..(n - 1) : wt[j][2] = wt[j + 1][1]
            /\ \A j \in 1..n : RSub(wt[j][2], wt[j][1]) = Rat(locals.words[j] + 1, total)
            /\ (lyr_eval.clip >= 0 /\ RLt(lyr_eval.prog, <<1, 1>>)) =>
                  /\ \A j \in 1..n :
                        (RLe(wt[j][1], lyr_eval.prog) /\ RLt(lyr_eval.prog, wt[j][2]))
                            <=> j = lyr_eval.idx + 1
                  /\ lyr_eval.past_end = wt[lyr_eval.idx + 1][1]
                  /\ lyr_eval.cur_start = wt[lyr_eval.idx + 1][1]
                  /\ lyr_eval.cur_end = wt[lyr_eval.idx + 1][2]

\* A frame inside the second word of a line of several words of unlike
\* lengths.
C21_Witness ==
    /\ lyr_mode = "karaoke"
    /\ locals.words = <<1, 2>>
    /\ lyr_eval.clip >= 0
    /\ lyr_eval.idx = 1
    /\ RLt(lyr_eval.prog, <<1, 1>>)

\* ------------------------------------------------- properties of SpecFrame
Cropped == fpc \in {"resize", "done", "raised"}

\* The source is wider than the frame, or of the frame's aspect ratio, by
\* the exact products.
SourceWider == bg_size[1] * frame_size[2] > bg_size[2] * frame_size[1]

SourceSameRatio == bg_size[1] * frame_size[2] = bg_size[2] * frame_size[1]

\* C22: the crop is along x and centred for a source wider than the frame
\* and along y and centred otherwise, it lies inside the source and keeps
\* pixels, a source of the frame's aspect ratio loses none, and the resized
\* background has the frame's width and height.
C22_FillCrop ==
    Cropped =>
        /\ SourceWider => (crop.axis = "x" /\ crop.y1 = 0 /\ crop.height = bg_size[2]
                              /\ crop.x1 = (bg_size[1] - crop.width) \div 2)
        /\ ~SourceWider => (crop.axis = "y" /\ crop.x1 = 0 /\ crop.width = bg_size[1]
                              /\ crop.y1 = (bg_size[2] - crop.height) \div 2)
        /\ crop.x1 >= 0 /\ crop.width > 0 /\ crop.x1 + crop.width <= bg_size[1]
        /\ crop.y1 >= 0 /\ crop.height > 0 /\ crop.y1 + crop.height <= bg_size[2]
        /\ SourceSameRatio => (crop.width = bg_size[1] /\ crop.height = bg_size[2])
        /\ fpc # "raised"
        /\ fpc = "done" => out_size = frame_size

\* C23: for every tier and aspect ratio the width and the height are
\* positive and even; the height is the tier's for a ratio of 1 or more, the
\* width is for a ratio below 1.
C23_EvenResolution ==
    fpc \in {"crop", "resize", "done", "raised"} =>
        /\ frame_size[1] > 0 /\ frame_size[1] % 2 = 0
        /\ frame_size[2] > 0 /\ frame_size[2] % 2 = 0
        /\ aspect_ratio[1] >= aspect_ratio[2] => frame_size[2] = base_res_map(res)
        /\ aspect_ratio[1] < aspect_ratio[2] => frame_size[1] = base_res_map(res)

\* An unknown tier and a ratio whose width comes out odd.
C23_Witness ==
    /\ fpc = "crop"
    /\ res = "8K"
    /\ frame_raw[1] % 2 = 1
    /\ frame_size[1] = frame_raw[1] + 1

\* ------------------------------------------- more properties of SpecLayers
\* The lyric modes a configuration asks for.
ModesSet ==
    {m \in {"lyrics_bounce", "lyrics_karaoke", "lyrics_scrolling"} : config[m]}

\* C25: a configuration with more than one of lyrics_bounce, lyrics_karaoke
\* and lyrics_scrolling set is rejected before rendering: run_render builds
\* no layer for it and never reaches the compositor.
C25_ConflictingModesRejected ==
    Cardinality(ModesSet) > 1 => (clips = <<>> /\ rpc # "done")

\* ------------------------------------------- more properties of SpecLyrics
\* C26: get_v_idx is total on the cue lists the parser gives, a cue with
\* start = end included: for every t in [0, duration) it returns a value in
\* [-1, n] and raises nothing.
C26_VirtualIndexTotal ==
    (lyr_mode = "index" /\ scroll_t >= 0 /\ scroll_t < MaxTime) =>
        /\ v_engine.exc = ""
        /\ RLe(<<-1, 1>>, v_engine.v)
        /\ RLe(v_engine.v, <<Len(lyr_subs), 1>>)

\* ------------------------------------------------- more properties of Spec
\* A render job is in progress from start_task to the slot of its terminal
\* signal: the Worker of the last start_task has not been classified.
InProgress == nWorkers > 0 /\ outcome[nWorkers] = "none"

\* C28: the render button is enabled exactly when no render job is in
\* progress, the render and cancel buttons are never both enabled, and once
\* the terminal signal of a job (success, failure or cancellation) is
\* delivered the render button is enabled and the cancel button disabled.
C28_RenderCancelButtons ==
    /\ render_btn <=> ~InProgress
    /\ ~(render_btn /\ cancel_btn)
    /\ \A w \in Jobs :
            (w = nWorkers /\ outcome[w] \in {"Completed", "Failed", "Cancelled"}) =>
                (render_btn /\ ~cancel_btn)

\* A second job was started after the first had ended, was cancelled, and
\* its signal has put the buttons back.
C28_Witness ==
    /\ nWorkers = 2
    /\ outcome[2] = "Cancelled"
    /\ wpc[1] = "released"
    /\ render_btn
    /\ ~cancel_btn

\* ----------------------------------------- more properties of SpecSpectrum
\* C29: the frame cache is transparent: what make_spectrum_rgba returns for
\* a frame is what a render with an empty cache returns for it, whatever was
\* asked before and whenever the cache was cleared; and the colour buffer
\* and the mask of one frame time are taken from the same RGBA frame.
C29_CacheTransparent ==
    FrameAsked =>
        /\ specResult = spectrum_rgba(<<>>, requested - 1).result
        /\ specResult.kind = "frame"
        /\ specResult.channels = 4
        /\ make_mask(requested - 1).kind = "frame"

\* ------------------------------------------------ properties of SpecPreview
\* The cues of the last lookup whose half-open interval [start, end) holds
\* the time of the lookup.
CuesHalfOpen ==
    {i \in 1..Len(lookup.cues) :
        lookup.cues[i].s <= lookup.t /\ lookup.t < lookup.cues[i].e}

\* C24: the cue shown for a time t is one whose half-open interval
\* [start, end) holds t, and none when there is no such cue; so at the end
\* of cue i, where cue i+1 starts, the lookup gives cue i+1 and not cue i.
C24_HalfOpenLookup ==
    lookup.t >= 0 =>
        IF CuesHalfOpen = {} THEN lookup.text = ""
        ELSE \E i \in CuesHalfOpen : lookup.text = lookup.cues[i].t

\* C27: while the preview runs, spectrum_data is None or the analysis of the
\* song that is playing: the result of a SpectrumWorker started for an
\* earlier song is not installed once a later song has begun.
C27_SpectrumOfPlayingSong ==
    (is_playing /\ spectrum_data # NoData) => spectrum_data = music.source

\* C30: audio_queue has the length and the songs of the audio list that
\* start_preview copied and is that list rotated by the number of songs
\* started since; the songs are started in the cyclic order of the list, and
\* within one cycle no song is started twice.
C30_QueueIsRotation ==
    LET n == Len(session_list)
    IN  /\ Len(audio_queue) = n
        /\ n = 0 => played = <<>>
        /\ n > 0 =>
            /\ audio_queue = [i \in 1..n |-> session_list[((i - 1 + Len(played)) % n) + 1]]
            /\ \A k \in 1..Len(played) : played[k] = session_list[((k - 1) % n) + 1]
            /\ \A j, k \in 1..Len(played) : (j < k /\ k - j < n) => played[j] # played[k]

\* A list of two songs has been played through and its first song started
\* again, while update_playback_loop showed a cue.
C30_Witness ==
    /\ Len(session_list) = 2
    /\ Len(played) = 3
    /\ played[3] = played[1]
    /\ is_playing
    /\ lookup.t >= 0

====
